---------------------------- MODULE Spec2Model ----------------------------
(***************************************************************************)
(* A model of the MP3 podcast chunker server.                              *)
(*                                                                         *)
(*   Spec     the server as it is wired: the routes (registerRoutes) over  *)
(*            the exported `storage` (MemStorage), the background chunking *)
(*            task driving SimpleFFmpegService.chunkAudio, the external    *)
(*            ffprobe/ffmpeg processes, the disk and the WebSocket         *)
(*            clients.                                                     *)
(*   SpecSeg  one call of chunkAudio (SimpleFFmpegService or               *)
(*            FFmpegService) over a dense range of probed durations.       *)
(*   SpecRace the same server with two uploads and room for two runs, fed  *)
(*            well-formed requests only, without sockets.                  *)
(*   SpecDb   the two stores side by side, FlatFileDatabase with its JSON  *)
(*            snapshot and MemStorage, the disk, and process restarts.     *)
(*   SpecIo   SpecDb's calls with saveDatabase() failing at any of them.   *)
(*   SpecLoad the FlatFileDatabase constructed over whatever DB_FILE       *)
(*            holds.                                                       *)
(***************************************************************************)
EXTENDS Integers, Sequences, FiniteSets, TLC

VARIABLES
    \* ---- Spec: the server process ----
    storage,         \* the exported `storage`: a MemStorage
    runs,            \* the background chunking tasks, by run number
    clients,         \* wss.clients: the open sockets, in connection order
    inbox,           \* what each socket has been sent, in order
    response,        \* the last HTTP response
    uploadSeq,       \* multer's unique suffixes handed out so far
    boots,           \* restarts of the server process so far
    fileIdLog,       \* history: ids createUploadedFile returned, in order
    chunkIdLog,      \* history: ids createChunk returned, in order
    chunkOrigin,     \* history: chunk id -> the run that persisted it
    \* ---- the disk, shared by Spec and SpecDb ----
    fsFiles,         \* the regular files on disk: path -> content
    fsDirs,          \* the directories under public/chunks on disk
    \* ---- SpecSeg: one chunkAudio call ----
    seg,
    \* ---- SpecDb: FlatFileDatabase (with storage, the logs and the disk) ----
    data,            \* FlatFileDatabase.data
    dbFile,          \* the contents of DB_FILE
    dbResult,        \* what the last FlatFileDatabase call returned
    dbIdLog          \* history: ids the database's creates returned

vars == <<storage, runs, clients, inbox, response, uploadSeq, boots, fileIdLog,
          chunkIdLog, chunkOrigin, fsFiles, fsDirs, seg, data, dbFile,
          dbResult, dbIdLog>>

serverVars == <<storage, runs, clients, inbox, response, uploadSeq, boots,
                fileIdLog, chunkIdLog, chunkOrigin>>

diskVars == <<fsFiles, fsDirs>>

dbVars == <<data, dbFile, dbResult, dbIdLog>>

-----------------------------------------------------------------------------
(* Program constants *)

\* config.chunkDuration * 60
SecondsPerMinute == 60

\* chunkingConfigSchema: chunkDuration: z.number().min(1).max(60)
MinChunkDuration == 1

MaxChunkDuration == 60

\* (i + 1).toString().padStart(3, '0')
ChunkNumberWidth == 3

\* startMin.toString().padStart(2, '0')
MinuteWidth == 2

\* resolve({ duration: Math.round(duration), bitrate: 128000 })
DefaultBitrate == 128000

\* multer limits: fileSize: 500 * 1024 * 1024
MaxUploadBytes == 524288000

(* Bounds of the model *)

\* SpecSeg: probed media lengths run over 0 .. MaxSegSeconds, in half seconds
MaxSegSeconds == 130

\* SpecSeg: requested chunkDuration runs over 1 .. MaxSegMinutes
MaxSegMinutes == 2

\* Spec: files uploaded over the life of the model
MaxUploads == 1

\* Spec: chunking runs launched over the life of the model
MaxRuns == 1

\* SpecRace: chunking runs launched over the life of the model
MaxRaceRuns == 2

\* SpecRace: uploads made over the life of the model
MaxRaceUploads == 2

\* Spec: WebSocket connections made over the life of the model
MaxClients == 2

\* SpecDb: restarts of the process
MaxRestarts == 1

\* SpecDb: the files and the chunks the stores are asked to create
MaxDbFiles == 2

MaxDbChunks == 2

\* Spec: uploaded media are MediaStep, 2 MediaStep, .. tenths of a second long
MediaStep == 1500

MaxMediaSteps == 1

\* Spec: requested chunkDuration runs over 0 .. MaxReqMinutes, and 61
MaxReqMinutes == 2

-----------------------------------------------------------------------------
(* Arithmetic and strings *)

Min(a, b) == IF a <= b THEN a ELSE b

\* Math.ceil(a / b) for a >= 0, b > 0
Ceil(a, b) == IF a % b = 0 THEN a \div b ELSE (a \div b) + 1

\* Math.floor(a / b) for a >= 0, b > 0
Floor(a, b) == a \div b

\* Math.round of a length given in tenths of a second: to the nearest second,
\* halves up
RoundTenths(t) == (t + 5) \div 10

\* Math.round(100 * a / b)
RoundPercent(a, b) == (200 * a + b) \div (2 * b)

RECURSIVE padStart(_, _, _)
\* String.prototype.padStart(width, fill) with a one-character fill
padStart(s, width, fill) ==
    IF Len(s) >= width THEN s ELSE padStart(fill \o s, width, fill)

RECURSIVE LastDot(_, _)
\* the position of the last "." of s at or before position k, 0 when none
LastDot(s, k) ==
    IF k = 0 THEN 0
    ELSE IF SubSeq(s, k, k) = "." THEN k
    ELSE LastDot(s, k - 1)

\* path.parse(p).name for a p without directory part: p without its extension
\* (a leading dot starts no extension)
ParseName(p) ==
    LET d == LastDot(p, Len(p))
    IN  IF d <= 1 THEN p ELSE SubSeq(p, 1, d - 1)

-----------------------------------------------------------------------------
(* chunkAudio: the per-chunk computation shared by SimpleFFmpegService and
   FFmpegService *)

\* customPrefix: z.string().optional(), when the request leaves it out
Undefined == "<undefined>"

NamingFormats == {"sequential", "timestamp", "custom"}

\* const chunkDurationSeconds = config.chunkDuration * 60
chunkDurationSeconds(config) == config.chunkDuration * SecondsPerMinute

\* const totalChunks = Math.ceil(duration / chunkDurationSeconds)
totalChunks(duration, config) == Ceil(duration, chunkDurationSeconds(config))

\* const startTime = i * chunkDurationSeconds
startTime(i, config) == i * chunkDurationSeconds(config)

\* endTime without the clamp to the probed duration
endTimeNoClamp(i, duration, config) == (i + 1) * chunkDurationSeconds(config)

\* const endTime = Math.min((i + 1) * chunkDurationSeconds, duration)
endTime(i, duration, config) ==
    Min((i + 1) * chunkDurationSeconds(config), duration)

\* const actualDuration = endTime - startTime
actualDuration(i, duration, config) ==
    endTime(i, duration, config) - startTime(i, config)

\* const chunkNumber = (i + 1).toString().padStart(3, '0')
chunkNumber(i) == padStart(ToString(i + 1), ChunkNumberWidth, "0")

\* originalFilename ? path.parse(originalFilename).name : `file-${config.fileId}`
baseFilename(originalFilename, config) ==
    IF originalFilename # Undefined /\ originalFilename # ""
    THEN ParseName(originalFilename)
    ELSE "file-" \o ToString(config.fileId)

\* SimpleFFmpegService: const filename = `${chunkNumber} - ${baseFilename}.mp3`
SimpleFilename(i, base, duration, config) ==
    chunkNumber(i) \o " - " \o base \o ".mp3"

\* FFmpegService: switch (config.namingFormat)
FFmpegFilename(i, base, duration, config) ==
    CASE config.namingFormat = "sequential" ->
            chunkNumber(i) \o " - " \o base \o ".mp3"
      [] config.namingFormat = "timestamp" ->
            LET startMin == Floor(startTime(i, config), SecondsPerMinute)
                endMin == Floor(endTime(i, duration, config), SecondsPerMinute)
            IN  chunkNumber(i) \o " - " \o base \o " ("
                  \o padStart(ToString(startMin), MinuteWidth, "0") \o "-"
                  \o padStart(ToString(endMin), MinuteWidth, "0") \o "min).mp3"
      [] config.namingFormat = "custom" ->
            LET prefix == IF config.customPrefix \in {Undefined, ""}
                          THEN "chunk" ELSE config.customPrefix
            IN  chunkNumber(i) \o " - " \o base \o " - " \o prefix \o ".mp3"
      [] OTHER -> chunkNumber(i) \o " - " \o base \o ".mp3"

\* the filename the given service derives for loop index i
ChunkFilename(service, i, base, duration, config) ==
    IF service = "simple"
    THEN SimpleFilename(i, base, duration, config)
    ELSE FFmpegFilename(i, base, duration, config)

\* path: `/chunks/file-${config.fileId}/${filename}`
ChunkRecordPath(fileId, filename) ==
    "/chunks/file-" \o ToString(fileId) \o "/" \o filename

\* chunks.push({ filename, path, size: stats.size, duration, startTime, endTime,
\* chunkIndex: i + 1 }); Math.round leaves these whole numbers as they are
ChunkInfo(i, filename, size, duration, config) ==
    [ filename   |-> filename,
      path       |-> ChunkRecordPath(config.fileId, filename),
      size       |-> size,
      duration   |-> actualDuration(i, duration, config),
      startTime  |-> startTime(i, config),
      endTime    |-> endTime(i, duration, config),
      chunkIndex |-> i + 1 ]

\* the bytes of a stream copy of `seconds` seconds at the default bitrate
SegmentBytes(seconds) == seconds * (DefaultBitrate \div 8)

-----------------------------------------------------------------------------
(* SpecSeg: one call chunkAudio(inputPath, config, ws, fileId, originalFilename)
   of either service.  The external processes are the environment: the probe
   prints a duration (or none) or fails, each extraction exits 0 or not. *)

SegNames == {"episode.mp3", "my.show.mp3", Undefined}

SegConfigs(minutes) ==
    [ fileId : {7}, chunkDuration : minutes,
      namingFormat : NamingFormats, customPrefix : {Undefined, "part"} ]

\* the media lengths the probe may print, in tenths of a second: every half
\* second up to MaxSegSeconds, and three long ones (25 min, 2 h, 2 h and 1 s)
SegRawDurations == { 5 * k : k \in 0 .. 2 * MaxSegSeconds }

SegLongDurations == {15000, 72000, 72010}

SegStart(service, raw, config, name) ==
    [ service |-> service, raw |-> raw, config |-> config,
      originalFilename |-> name, pc |-> "probe", duration |-> 0, i |-> 0,
      chunks |-> << >> ]

\* the variables of the other specifications, at rest
ServerIdle ==
    /\ storage = [uploadedFiles |-> << >>, chunks |-> << >>,
                  currentFileId |-> 1, currentChunkId |-> 1]
    /\ runs = << >> /\ clients = << >> /\ inbox = << >>
    /\ response = [route |-> "none", status |-> 0, id |-> 0]
    /\ uploadSeq = 0 /\ boots = 0
    /\ fileIdLog = << >> /\ chunkIdLog = << >> /\ chunkOrigin = << >>

DiskEmpty == fsFiles = << >> /\ fsDirs = {}

SegIdle == seg = SegStart("simple", 0, [fileId |-> 0], Undefined)

DbIdle ==
    /\ data = [files |-> << >>, chunks |-> << >>, nextFileId |-> 1,
               nextChunkId |-> 1, lastUpdated |-> [kind |-> "string", at |-> 0]]
    /\ dbFile = [exists |-> FALSE]
    /\ dbResult = [op |-> "none"]
    /\ dbIdLog = [files |-> << >>, chunks |-> << >>]

InitSeg ==
    /\ \/ \E service \in {"simple", "fluent"}, raw \in SegRawDurations,
             config \in SegConfigs(MinChunkDuration .. MaxSegMinutes) :
             seg = SegStart(service, raw, config, "episode.mp3")
       \/ \E service \in {"simple", "fluent"}, raw \in SegLongDurations,
             config \in SegConfigs({10, MaxChunkDuration}), name \in SegNames :
             seg = SegStart(service, raw, config, name)
    /\ ServerIdle /\ DiskEmpty /\ DbIdle

\* const { duration } = await this.getMetadata(inputPath): the probe exits 0
\* and prints a duration, which is rounded; the loop is entered, or skipped
\* when totalChunks is 0 and chunkAudio returns []
SegProbeResolves ==
    /\ seg.pc = "probe"
    /\ LET d == RoundTenths(seg.raw)
       IN  seg' = [seg EXCEPT !.duration = d,
                     !.pc = IF totalChunks(d, seg.config) = 0
                            THEN "returned" ELSE "loop"]

\* the probe exits 0 without a duration field: duration is 0
SegProbeNoDuration ==
    /\ seg.pc = "probe"
    /\ seg' = [seg EXCEPT !.duration = 0, !.pc = "returned"]

\* the probe exits non-zero, errors or times out: chunkAudio rejects
SegProbeRejects ==
    /\ seg.pc = "probe"
    /\ seg' = [seg EXCEPT !.pc = "thrown"]

\* extraction i exits 0 (close with code 0, resp. 'end'): the output is
\* stat'ed and the descriptor pushed; after the last one chunkAudio returns
SegExtractionSucceeds ==
    /\ seg.pc = "loop"
    /\ LET i == seg.i
           d == seg.duration
           base == baseFilename(seg.originalFilename, seg.config)
           filename == ChunkFilename(seg.service, i, base, d, seg.config)
           size == SegmentBytes(actualDuration(i, d, seg.config))
       IN  seg' = [seg EXCEPT
                     !.chunks = Append(@, ChunkInfo(i, filename, size, d, seg.config)),
                     !.i = i + 1,
                     !.pc = IF i + 1 < totalChunks(d, seg.config)
                            THEN "loop" ELSE "returned"]

\* extraction i exits non-zero, errors, or (FFmpegService) times out:
\* the promise rejects and chunkAudio throws
SegExtractionFails ==
    /\ seg.pc = "loop"
    /\ seg' = [seg EXCEPT !.pc = "thrown"]

NextSeg ==
    \/ SegProbeResolves /\ UNCHANGED <<serverVars, diskVars, dbVars>>
    \/ SegProbeNoDuration /\ UNCHANGED <<serverVars, diskVars, dbVars>>
    \/ SegProbeRejects /\ UNCHANGED <<serverVars, diskVars, dbVars>>
    \/ SegExtractionSucceeds /\ UNCHANGED <<serverVars, diskVars, dbVars>>
    \/ SegExtractionFails /\ UNCHANGED <<serverVars, diskVars, dbVars>>

SpecSeg == InitSeg /\ [][NextSeg]_vars

-----------------------------------------------------------------------------
(* The disk *)

\* process.cwd()
Cwd == "/app"

\* const uploadsDir = path.join(process.cwd(), 'public', 'uploads')
uploadsDir == Cwd \o "/public/uploads"

\* const chunksDir = path.join(process.cwd(), 'public', 'chunks')
chunksDir == Cwd \o "/public/chunks"

\* one chunk directory for every file
fileChunksDirShared(fileId) == chunksDir \o "/file-0"

\* path.join(chunksDir, `file-${config.fileId}`)
fileChunksDir(fileId) == chunksDir \o "/file-" \o ToString(fileId)

\* const outputPath = path.join(fileChunksDir, filename)
outputPath(fileId, filename) == fileChunksDir(fileId) \o "/" \o filename

\* path.join(process.cwd(), 'public', chunk.path)
PublicPath(p) == Cwd \o "/public" \o p

\* path.join(process.cwd(), 'public', 'uploads', file.filename)
UploadPath(filename) == uploadsDir \o "/" \o filename

\* the content of a file that prints no duration when probed
NoDuration == 0 - 1

\* fs.existsSync(p)
existsSync(files, dirs, p) == p \in DOMAIN files \/ p \in dirs

\* p lies under directory dir
Under(dir, p) ==
    /\ Len(p) > Len(dir)
    /\ SubSeq(p, 1, Len(dir) + 1) = dir \o "/"

\* fs.unlinkSync(p)
unlinkSync(files, p) == [q \in DOMAIN files \ {p} |-> files[q]]

\* a removal that leaves the files of the directory behind
rmSyncKeepFiles(files, dir) == files

\* fs.rmSync(dir, { recursive: true }): the files left
rmSyncFiles(files, dir) ==
    [q \in {x \in DOMAIN files : ~Under(dir, x)} |-> files[q]]

\* a file written (or overwritten) at p
writeFile(files, p, content) ==
    [q \in DOMAIN files \cup {p} |-> IF q = p THEN content ELSE files[q]]

-----------------------------------------------------------------------------
(* MemStorage, the class behind the exported `storage` *)

Range(f) == { f[k] : k \in DOMAIN f }

\* new Date(): the clock, as coarse as the number of process starts so far
Now == [kind |-> "Date", at |-> boots]

\* constructor()
Mem_new ==
    [ uploadedFiles |-> << >>, chunks |-> << >>,
      currentFileId |-> 1, currentChunkId |-> 1 ]

RECURSIVE NextFreeId(_, _)
\* while (this.map.has(this.currentId)) this.currentId++
NextFreeId(ids, current) ==
    IF current \in ids THEN NextFreeId(ids, current + 1) ELSE current

Mem_fileIds(st) == { f.id : f \in Range(st.uploadedFiles) }

Mem_chunkIds(st) == { c.id : c \in Range(st.chunks) }

\* getNextFileId(): the id returned
Mem_getNextFileId(st) == NextFreeId(Mem_fileIds(st), st.currentFileId)

\* getNextChunkId(): the id returned
Mem_getNextChunkId(st) == NextFreeId(Mem_chunkIds(st), st.currentChunkId)

\* createUploadedFile(insertFile): the store afterwards; the new file is last.
\* insertFile carries duration and bitrate (the upload route sets both), so
\* `?? null` leaves them as they are
Mem_createUploadedFile(st, insertFile) ==
    LET id == Mem_getNextFileId(st)
    IN  [st EXCEPT !.uploadedFiles = Append(@, [id |-> id, uploadedAt |-> Now] @@ insertFile),
                   !.currentFileId = id + 1]

\* getUploadedFile(id) is defined
Mem_hasUploadedFile(st, id) == id \in Mem_fileIds(st)

\* getUploadedFile(id), when defined
Mem_getUploadedFile(st, id) ==
    CHOOSE f \in Range(st.uploadedFiles) : f.id = id

\* getAllUploadedFiles()
Mem_getAllUploadedFiles(st) == st.uploadedFiles

\* createChunk(insertChunk): the store afterwards; the new chunk is last
Mem_createChunk(st, insertChunk) ==
    LET id == Mem_getNextChunkId(st)
    IN  [st EXCEPT !.chunks = Append(@, [id |-> id, createdAt |-> Now] @@ insertChunk),
                   !.currentChunkId = id + 1]

\* getChunksByFileId(fileId)
Mem_getChunksByFileId(st, fileId) ==
    SelectSeq(st.chunks, LAMBDA c : c.fileId = fileId)

Mem_hasChunk(st, id) == id \in Mem_chunkIds(st)

\* getChunk(id), when defined
Mem_getChunk(st, id) == CHOOSE c \in Range(st.chunks) : c.id = id

\* deleteChunk(id)
Mem_deleteChunk(st, id) ==
    [st EXCEPT !.chunks = SelectSeq(@, LAMBDA c : c.id # id)]

\* deleteChunksByFileId(fileId)
Mem_deleteChunksByFileId(st, fileId) ==
    [st EXCEPT !.chunks = SelectSeq(@, LAMBDA c : c.fileId # fileId)]

\* deleteUploadedFile(id): delete the file, then deleteChunksByFileId(id)
Mem_deleteUploadedFile(st, id) ==
    Mem_deleteChunksByFileId(
        [st EXCEPT !.uploadedFiles = SelectSeq(@, LAMBDA f : f.id # id)], id)

\* getAllChunks()
Mem_getAllChunks(st) == st.chunks

-----------------------------------------------------------------------------
(* Spec: the server. *)

\* the media lengths of the files users upload, in tenths of a second
MediaLengths == { MediaStep * k : k \in 1 .. MaxMediaSteps } \cup {NoDuration}

UploadNames == {"episode.mp3"}

AcceptedMimeTypes == {"audio/mpeg", "audio/mp3"}

\* the bytes of an uploaded file of the given media length
MediaBytes(tenths) ==
    IF tenths = NoDuration THEN 1024 ELSE SegmentBytes(RoundTenths(tenths))

NoConfig ==
    [ fileId |-> 0, chunkDuration |-> 0, namingFormat |-> "",
      customPrefix |-> Undefined ]

\* a run slot not yet used
FreeRun ==
    [ pc |-> "free", fileId |-> 0, inputPath |-> "", originalName |-> "",
      config |-> NoConfig, ws |-> 0, duration |-> 0, i |-> 0,
      chunks |-> << >>, proc |-> "none", kind |-> "none", code |-> 0,
      stdout |-> NoDuration, error |-> "" ]

NoResponse == [route |-> "none", status |-> 0, id |-> 0]

Init ==
    /\ storage = Mem_new
    /\ runs = [r \in 1 .. MaxRuns |-> FreeRun]
    /\ clients = << >>
    /\ inbox = << >>
    /\ response = NoResponse
    /\ uploadSeq = 0
    /\ boots = 0
    /\ fileIdLog = << >>
    /\ chunkIdLog = << >>
    /\ chunkOrigin = << >>
    /\ DiskEmpty /\ SegIdle /\ DbIdle

\* wss.on('connection'): a client connects
WsConnect ==
    /\ Len(inbox) < MaxClients
    /\ inbox' = Append(inbox, << >>)
    /\ clients' = Append(clients, Len(inbox) + 1)
    /\ UNCHANGED <<storage, runs, response, uploadSeq, boots, fileIdLog,
                   chunkIdLog, chunkOrigin, diskVars, seg, dbVars>>

\* ws.on('close'): an open client goes away
WsClose(ws) ==
    /\ ws \in Range(clients)
    /\ clients' = SelectSeq(clients, LAMBDA c : c # ws)
    /\ UNCHANGED <<storage, runs, inbox, response, uploadSeq, boots, fileIdLog,
                   chunkIdLog, chunkOrigin, diskVars, seg, dbVars>>

\* multer's fileFilter and limits turn the request away before the handler:
\* nothing is stored
UploadRejected(mime, tooLarge) ==
    /\ mime \notin AcceptedMimeTypes \/ tooLarge
    /\ response' = [route |-> "upload", status |-> 500, id |-> 0]
    /\ UNCHANGED <<storage, runs, clients, inbox, uploadSeq, boots, fileIdLog,
                   chunkIdLog, chunkOrigin, diskVars, seg, dbVars>>

\* the route recording the upload whatever getMetadata did
UploadUnprobed(name, mime, tenths, probeOk) ==
    /\ mime \in AcceptedMimeTypes
    /\ LET filename == "u" \o ToString(uploadSeq + 1) \o "-" \o name
           path == UploadPath(filename)
           size == MediaBytes(tenths)
           duration == IF tenths = NoDuration THEN 0 ELSE RoundTenths(tenths)
           fileData == [ filename |-> filename, originalName |-> name,
                         path |-> path, size |-> size, duration |-> duration,
                         bitrate |-> DefaultBitrate, mimeType |-> mime ]
       IN  /\ uploadSeq' = uploadSeq + 1
           /\ fsFiles' = writeFile(fsFiles, path, [tenths |-> tenths, bytes |-> size])
           /\ IF TRUE
              THEN /\ storage' = Mem_createUploadedFile(storage, fileData)
                   /\ fileIdLog' = Append(fileIdLog, Mem_getNextFileId(storage))
                   /\ response' = [route |-> "upload", status |-> 200,
                                   id |-> Mem_getNextFileId(storage)]
              ELSE /\ response' = [route |-> "upload", status |-> 500, id |-> 0]
                   /\ UNCHANGED <<storage, fileIdLog>>
    /\ UNCHANGED <<runs, clients, inbox, boots, chunkIdLog, chunkOrigin, fsDirs,
                   seg, dbVars>>

\* POST /api/upload: multer stores the file, getMetadata probes it (probeOk:
\* ffprobe exits 0 in time), createUploadedFile records it
Upload(name, mime, tenths, probeOk) ==
    /\ mime \in AcceptedMimeTypes
    /\ LET filename == "u" \o ToString(uploadSeq + 1) \o "-" \o name
           path == UploadPath(filename)
           size == MediaBytes(tenths)
           duration == IF tenths = NoDuration THEN 0 ELSE RoundTenths(tenths)
           fileData == [ filename |-> filename, originalName |-> name,
                         path |-> path, size |-> size, duration |-> duration,
                         bitrate |-> DefaultBitrate, mimeType |-> mime ]
       IN  /\ uploadSeq' = uploadSeq + 1
           /\ fsFiles' = writeFile(fsFiles, path, [tenths |-> tenths, bytes |-> size])
           /\ IF probeOk
              THEN /\ storage' = Mem_createUploadedFile(storage, fileData)
                   /\ fileIdLog' = Append(fileIdLog, Mem_getNextFileId(storage))
                   /\ response' = [route |-> "upload", status |-> 200,
                                   id |-> Mem_getNextFileId(storage)]
              ELSE /\ response' = [route |-> "upload", status |-> 500, id |-> 0]
                   /\ UNCHANGED <<storage, fileIdLog>>
    /\ UNCHANGED <<runs, clients, inbox, boots, chunkIdLog, chunkOrigin, fsDirs,
                   seg, dbVars>>

\* the chunkDuration, namingFormat and fileId values requests carry
ReqMinutes == (0 .. MaxReqMinutes) \cup {MaxChunkDuration + 1}

ReqFormats == {"sequential", "timestamp"}

ReqFileIds == 1 .. MaxUploads

\* the schema without .max(60)
ConfigValidNoMax(minutes, format) ==
    /\ minutes >= MinChunkDuration
    /\ format \in NamingFormats

\* chunkingConfigSchema.parse(...) accepts the request
ConfigValid(minutes, format) ==
    /\ minutes >= MinChunkDuration
    /\ minutes <= MaxChunkDuration
    /\ format \in NamingFormats

\* POST /api/chunk/:fileId turned away: the schema throws (caught: 500), or the
\* file is not in the store (404); nothing is launched
StartChunkRejected(fileId, minutes, format) ==
    /\ ~ConfigValid(minutes, format) \/ ~Mem_hasUploadedFile(storage, fileId)
    /\ response' = [route |-> "chunk",
                    status |-> IF ~ConfigValid(minutes, format) THEN 500 ELSE 404,
                    id |-> fileId]
    /\ UNCHANGED <<storage, runs, clients, inbox, uploadSeq, boots, fileIdLog,
                   chunkIdLog, chunkOrigin, diskVars, seg, dbVars>>

\* wss.clients.forEach(ws => { if (OPEN) activeWs = ws }): the last open one
activeWs == IF clients = << >> THEN 0 ELSE clients[Len(clients)]

\* the route calling chunkAudio itself, before it answers
StartChunkAwaitsRun(r, fileId, minutes, format) ==
    /\ runs[r].pc = "free"
    /\ \A q \in 1 .. r - 1 : runs[q].pc # "free"
    /\ ConfigValid(minutes, format)
    /\ Mem_hasUploadedFile(storage, fileId)
    /\ LET file == Mem_getUploadedFile(storage, fileId)
       IN  runs' = [runs EXCEPT ![r] =
                [FreeRun EXCEPT !.pc = "probing", !.fileId = fileId,
                    !.inputPath = file.path, !.originalName = file.originalName,
                    !.ws = activeWs, !.proc = "spawned", !.kind = "ffprobe",
                    !.config = [ fileId |-> fileId, chunkDuration |-> minutes,
                                 namingFormat |-> format,
                                 customPrefix |-> Undefined ]]]
    /\ UNCHANGED <<storage, clients, inbox, response, uploadSeq, boots,
                   fileIdLog, chunkIdLog, chunkOrigin, diskVars, seg, dbVars>>

\* POST /api/chunk/:fileId accepted: the response is sent and the background
\* task is queued with setImmediate
StartChunk(r, fileId, minutes, format) ==
    /\ runs[r].pc = "free"
    /\ \A q \in 1 .. r - 1 : runs[q].pc # "free"
    /\ ConfigValid(minutes, format)
    /\ Mem_hasUploadedFile(storage, fileId)
    /\ LET file == Mem_getUploadedFile(storage, fileId)
       IN  runs' = [runs EXCEPT ![r] =
                [FreeRun EXCEPT !.pc = "scheduled", !.fileId = fileId,
                    !.inputPath = file.path, !.originalName = file.originalName,
                    !.config = [ fileId |-> fileId, chunkDuration |-> minutes,
                                 namingFormat |-> format,
                                 customPrefix |-> Undefined ]]]
    /\ response' = [route |-> "chunk", status |-> 200, id |-> fileId]
    /\ UNCHANGED <<storage, clients, inbox, uploadSeq, boots, fileIdLog,
                   chunkIdLog, chunkOrigin, diskVars, seg, dbVars>>

\* the background task starts: it picks activeWs and calls chunkAudio, which
\* calls getMetadata, which spawns ffprobe
TaskStart(r) ==
    /\ runs[r].pc = "scheduled"
    /\ runs' = [runs EXCEPT ![r] = [@ EXCEPT !.pc = "probing", !.ws = activeWs,
                                       !.proc = "spawned", !.kind = "ffprobe"]]
    /\ UNCHANGED <<storage, clients, inbox, response, uploadSeq, boots,
                   fileIdLog, chunkIdLog, chunkOrigin, diskVars, seg, dbVars>>

\* the filename and output path of the extraction run r is at
RunFilename(run) ==
    SimpleFilename(run.i, baseFilename(run.originalName, run.config),
                   run.duration, run.config)

RunOutputPath(run) == outputPath(run.config.fileId, RunFilename(run))

\* The external process of run r opens its input file: it reads what the
\* file holds, or exits non-zero when the file is not there
ProcOpen(r) ==
    /\ runs[r].proc = "spawned"
    /\ runs' = [runs EXCEPT ![r] =
            IF runs[r].inputPath \in DOMAIN fsFiles
            THEN [@ EXCEPT !.proc = "opened",
                           !.stdout = fsFiles[runs[r].inputPath].tenths]
            ELSE [@ EXCEPT !.proc = "exited", !.code = 1]]
    /\ UNCHANGED <<storage, clients, inbox, response, uploadSeq, boots,
                   fileIdLog, chunkIdLog, chunkOrigin, diskVars, seg, dbVars>>

\* The external process of run r finishes its work and exits: ffprobe has
\* printed the format, ffmpeg (-y) has written its output file, which needs
\* the output directory
ProcFinish(r) ==
    /\ runs[r].proc = "opened"
    /\ LET run == runs[r]
           len == actualDuration(run.i, run.duration, run.config)
       IN  IF run.kind = "ffprobe"
           THEN /\ runs' = [runs EXCEPT ![r] = [@ EXCEPT !.proc = "exited", !.code = 0]]
                /\ UNCHANGED fsFiles
           ELSE IF fileChunksDir(run.config.fileId) \in fsDirs
           THEN /\ runs' = [runs EXCEPT ![r] = [@ EXCEPT !.proc = "exited", !.code = 0]]
                /\ fsFiles' = writeFile(fsFiles, RunOutputPath(run),
                                  [tenths |-> 10 * len, bytes |-> SegmentBytes(len)])
           ELSE /\ runs' = [runs EXCEPT ![r] = [@ EXCEPT !.proc = "exited", !.code = 1]]
                /\ UNCHANGED fsFiles
    /\ UNCHANGED <<storage, clients, inbox, response, uploadSeq, boots,
                   fileIdLog, chunkIdLog, chunkOrigin, fsDirs, seg, dbVars>>

\* ffmpeg finds nothing to copy from its seek position on (the input holds
\* less audio than ffprobe reported): it leaves an empty output file and
\* exits 0
ProcFinishEmpty(r) ==
    /\ runs[r].proc = "opened"
    /\ runs[r].kind = "ffmpeg"
    /\ fileChunksDir(runs[r].config.fileId) \in fsDirs
    /\ runs' = [runs EXCEPT ![r] = [@ EXCEPT !.proc = "exited", !.code = 0]]
    /\ fsFiles' = writeFile(fsFiles, RunOutputPath(runs[r]), [tenths |-> 0, bytes |-> 0])
    /\ UNCHANGED <<storage, clients, inbox, response, uploadSeq, boots,
                   fileIdLog, chunkIdLog, chunkOrigin, fsDirs, seg, dbVars>>

\* The external process of run r fails for a reason of its own
ProcFail(r) ==
    /\ runs[r].proc \in {"spawned", "opened"}
    /\ runs' = [runs EXCEPT ![r] = [@ EXCEPT !.proc = "exited", !.code = 1]]
    /\ UNCHANGED <<storage, clients, inbox, response, uploadSeq, boots,
                   fileIdLog, chunkIdLog, chunkOrigin, diskVars, seg, dbVars>>

\* ws.send(JSON.stringify(message)) on one socket
Send(box, ws, message) == [box EXCEPT ![ws] = Append(@, message)]

\* wss.clients.forEach(ws => { if (OPEN) ws.send(...) })
Broadcast(box, message) ==
    [ws \in DOMAIN box |->
        IF ws \in Range(clients) THEN Append(box[ws], message) ELSE box[ws]]

\* a progress message counting from the loop index instead of i + 1
ProgressMsgFromZero(fileId, i, total) ==
    [ type |-> "progress", fileId |-> fileId,
      progress |-> RoundPercent(i, total),
      currentChunk |-> i, totalChunks |-> total,
      estimatedTime |-> (1000 * (total - i) + total) \div (2 * total),
      processingSpeed |-> 1 ]

\* the 'progress' message of the close handler of extraction i
ProgressMsg(fileId, i, total) ==
    [ type |-> "progress", fileId |-> fileId,
      progress |-> RoundPercent(i + 1, total),
      currentChunk |-> i + 1, totalChunks |-> total,
      estimatedTime |-> (1000 * (total - (i + 1)) + total) \div (2 * total),
      processingSpeed |-> 1 ]

CompleteMsg(fileId, list) ==
    [ type |-> "complete", fileId |-> fileId, chunks |-> list ]

ErrorMsg(fileId, message) ==
    [ type |-> "error", fileId |-> fileId, message |-> message ]

\* storage.createChunk({ fileId, filename: chunkInfo.filename, ... })
InsertChunkOf(fileId, info) ==
    [ fileId |-> fileId, filename |-> info.filename, path |-> info.path,
      size |-> info.size, duration |-> info.duration,
      startTime |-> info.startTime, endTime |-> info.endTime,
      chunkIndex |-> info.chunkIndex ]

RECURSIVE SaveChunksButLast(_, _, _)
\* the loop stopping one chunk short
SaveChunksButLast(st, fileId, list) ==
    IF Len(list) <= 1 THEN st
    ELSE SaveChunksButLast(Mem_createChunk(st, InsertChunkOf(fileId, Head(list))),
                           fileId, Tail(list))

RECURSIVE SaveChunks(_, _, _)
\* for (const chunkInfo of chunks) await storage.createChunk({...})
SaveChunks(st, fileId, list) ==
    IF list = << >> THEN st
    ELSE SaveChunks(Mem_createChunk(st, InsertChunkOf(fileId, Head(list))),
                    fileId, Tail(list))

\* the records a store gained at the end of its chunk list
NewChunks(before, after) ==
    SubSeq(after.chunks, Len(before.chunks) + 1, Len(after.chunks))

\* the catch block ending the task without telling the clients
TaskCatchSilent(r, message, box) ==
    /\ runs' = [runs EXCEPT ![r] = [@ EXCEPT !.pc = "failed", !.error = message]]
    /\ inbox' = box
    /\ UNCHANGED <<storage, chunkIdLog, chunkOrigin>>

\* the task without its try/catch: the error leaves the task unhandled
TaskRethrow(r, message, box) ==
    /\ runs' = [runs EXCEPT ![r] = [@ EXCEPT !.pc = "unhandled", !.error = message]]
    /\ inbox' = box
    /\ UNCHANGED <<storage, chunkIdLog, chunkOrigin>>

\* catch (error): the task ends, the error goes to every open client
TaskCatch(r, message, box) ==
    /\ runs' = [runs EXCEPT ![r] = [@ EXCEPT !.pc = "failed", !.error = message]]
    /\ inbox' = Broadcast(box, ErrorMsg(runs[r].fileId, message))
    /\ UNCHANGED <<storage, chunkIdLog, chunkOrigin>>

\* chunkAudio has returned `list`: the task saves the chunks, then sends
\* 'complete' to activeWs when it is still open
TaskSaveAndComplete(r, list, box) ==
    LET run == runs[r]
        after == SaveChunks(storage, run.fileId, list)
        new == NewChunks(storage, after)
    IN  /\ storage' = after
        /\ chunkIdLog' = chunkIdLog \o [k \in DOMAIN new |-> new[k].id]
        /\ chunkOrigin' = [id \in {c.id : c \in Range(new)} |-> r] @@ chunkOrigin
        /\ inbox' = IF run.ws \in Range(clients)
                    THEN Send(box, run.ws, CompleteMsg(run.fileId, list))
                    ELSE box
        /\ runs' = [runs EXCEPT ![r] = [@ EXCEPT !.pc = "complete", !.chunks = list]]

\* ffprobeProcess.on('close') in chunkAudio's getMetadata, and what follows
\* in the same turn: the duration is parsed (0 without a duration field) and
\* rounded, the chunk directory is made, and the first extraction is spawned
\* (or, with no chunk to cut, the empty list is returned)
ProbeClose(r) ==
    /\ runs[r].pc = "probing"
    /\ runs[r].proc = "exited"
    /\ LET run == runs[r]
           duration == IF run.stdout = NoDuration THEN 0 ELSE RoundTenths(run.stdout)
       IN  IF run.code # 0
           THEN /\ TaskCatch(r, "ffprobe failed with code 1", inbox)
                /\ UNCHANGED fsDirs
           ELSE /\ fsDirs' = fsDirs \cup {fileChunksDir(run.config.fileId)}
                /\ IF totalChunks(duration, run.config) = 0
                   THEN TaskSaveAndComplete(r, << >>, inbox)
                   ELSE /\ runs' = [runs EXCEPT ![r] =
                                [@ EXCEPT !.pc = "extracting", !.duration = duration,
                                          !.i = 0, !.proc = "spawned",
                                          !.kind = "ffmpeg", !.code = 0]]
                        /\ UNCHANGED <<storage, inbox, chunkIdLog, chunkOrigin>>
    /\ UNCHANGED <<clients, response, uploadSeq, boots, fileIdLog, fsFiles,
                   seg, dbVars>>

\* the 15 s timer of getMetadata fires before ffprobe has exited: the promise
\* rejects; the process is left running
ProbeTimeout(r) ==
    /\ runs[r].pc = "probing"
    /\ runs[r].proc \in {"spawned", "opened"}
    /\ TaskCatch(r, "Metadata extraction timeout", inbox)
    /\ UNCHANGED <<clients, response, uploadSeq, boots, fileIdLog, diskVars,
                   seg, dbVars>>

\* a close handler that skips a failed extraction and goes on with the next
ExtractCloseKeepsGoing(r) ==
    /\ runs[r].pc = "extracting"
    /\ runs[r].proc = "exited"
    /\ LET run == runs[r]
           total == totalChunks(run.duration, run.config)
           out == RunOutputPath(run)
           ok == run.code = 0 /\ out \in DOMAIN fsFiles
           box == IF run.code = 0 /\ run.ws \in Range(clients)
                  THEN Send(inbox, run.ws, ProgressMsg(run.fileId, run.i, total))
                  ELSE inbox
           list == IF ok
                   THEN Append(run.chunks,
                               ChunkInfo(run.i, RunFilename(run), fsFiles[out].bytes,
                                         run.duration, run.config))
                   ELSE run.chunks
       IN  IF run.i + 1 < total
           THEN /\ runs' = [runs EXCEPT ![r] =
                       [@ EXCEPT !.chunks = list, !.i = run.i + 1,
                                 !.proc = "spawned", !.code = 0]]
                /\ inbox' = box
                /\ UNCHANGED <<storage, chunkIdLog, chunkOrigin>>
           ELSE TaskSaveAndComplete(r, list, box)
    /\ UNCHANGED <<clients, response, uploadSeq, boots, fileIdLog, diskVars,
                   seg, dbVars>>

\* ffmpegProcess.on('close') of extraction i, and what follows in the same
\* turn: on code 0 the progress message, statSync of the output, the
\* descriptor, then the next extraction or the return of chunkAudio
ExtractClose(r) ==
    /\ runs[r].pc = "extracting"
    /\ runs[r].proc = "exited"
    /\ LET run == runs[r]
           total == totalChunks(run.duration, run.config)
           out == RunOutputPath(run)
           box == IF run.code = 0 /\ run.ws \in Range(clients)
                  THEN Send(inbox, run.ws, ProgressMsg(run.fileId, run.i, total))
                  ELSE inbox
       IN  IF run.code # 0
           THEN TaskCatch(r, "FFmpeg process exited with code 1", inbox)
           ELSE IF out \notin DOMAIN fsFiles
           THEN TaskCatch(r, "ENOENT: no such file or directory, stat", box)
           ELSE LET info == ChunkInfo(run.i, RunFilename(run), fsFiles[out].bytes,
                                      run.duration, run.config)
                    list == Append(run.chunks, info)
                IN  IF run.i + 1 < total
                    THEN /\ runs' = [runs EXCEPT ![r] =
                                [@ EXCEPT !.chunks = list, !.i = run.i + 1,
                                          !.proc = "spawned", !.code = 0]]
                         /\ inbox' = box
                         /\ UNCHANGED <<storage, chunkIdLog, chunkOrigin>>
                    ELSE TaskSaveAndComplete(r, list, box)
    /\ UNCHANGED <<clients, response, uploadSeq, boots, fileIdLog, diskVars,
                   seg, dbVars>>

\* DELETE /api/files/:fileId for an id not in the store: 404
DeleteFileNotFound(fileId) ==
    /\ ~Mem_hasUploadedFile(storage, fileId)
    /\ response' = [route |-> "deleteFile", status |-> 404, id |-> fileId]
    /\ UNCHANGED <<storage, runs, clients, inbox, uploadSeq, boots, fileIdLog,
                   chunkIdLog, chunkOrigin, diskVars, seg, dbVars>>

\* DELETE /api/files/:fileId (the handler registered first): the chunk
\* directory and the upload are removed from disk, then deleteChunksByFileId
\* and deleteUploadedFile
DeleteFile(fileId) ==
    /\ Mem_hasUploadedFile(storage, fileId)
    /\ LET file == Mem_getUploadedFile(storage, fileId)
           dir == fileChunksDir(fileId)
           left == IF dir \in fsDirs THEN rmSyncFiles(fsFiles, dir) ELSE fsFiles
           original == UploadPath(file.filename)
       IN  /\ fsDirs' = fsDirs \ {dir}
           /\ fsFiles' = IF original \in DOMAIN left
                         THEN unlinkSync(left, original) ELSE left
           /\ storage' = Mem_deleteUploadedFile(
                             Mem_deleteChunksByFileId(storage, fileId), fileId)
    /\ response' = [route |-> "deleteFile", status |-> 200, id |-> fileId]
    /\ UNCHANGED <<runs, clients, inbox, uploadSeq, boots, fileIdLog,
                   chunkIdLog, chunkOrigin, seg, dbVars>>

\* DELETE /api/chunks/:chunkId for an id not in the store: 404
DeleteChunkNotFound(chunkId) ==
    /\ ~Mem_hasChunk(storage, chunkId)
    /\ response' = [route |-> "deleteChunk", status |-> 404, id |-> chunkId]
    /\ UNCHANGED <<storage, runs, clients, inbox, uploadSeq, boots, fileIdLog,
                   chunkIdLog, chunkOrigin, diskVars, seg, dbVars>>

\* DELETE /api/chunks/:chunkId: the chunk's file is unlinked, then deleteChunk
DeleteChunk(chunkId) ==
    /\ Mem_hasChunk(storage, chunkId)
    /\ LET chunk == Mem_getChunk(storage, chunkId)
           chunkFilePath == PublicPath(chunk.path)
       IN  /\ fsFiles' = IF chunkFilePath \in DOMAIN fsFiles
                         THEN unlinkSync(fsFiles, chunkFilePath) ELSE fsFiles
           /\ storage' = Mem_deleteChunk(storage, chunkId)
    /\ response' = [route |-> "deleteChunk", status |-> 200, id |-> chunkId]
    /\ UNCHANGED <<runs, clients, inbox, uploadSeq, boots, fileIdLog,
                   chunkIdLog, chunkOrigin, fsDirs, seg, dbVars>>

\* POST /api/database/cleanup: MemStorage has no cleanupOrphanedEntries, so
\* the optional call yields undefined and the route answers zero counts
CleanupRoute ==
    /\ response' = [route |-> "cleanup", status |-> 200, id |-> 0]
    /\ UNCHANGED <<storage, runs, clients, inbox, uploadSeq, boots, fileIdLog,
                   chunkIdLog, chunkOrigin, diskVars, seg, dbVars>>

Next ==
    \/ WsConnect
    \/ \E ws \in 1 .. MaxClients : WsClose(ws)
    \/ \E mime \in {"audio/mpeg", "text/plain"}, tooLarge \in BOOLEAN :
          UploadRejected(mime, tooLarge)
    \/ \E name \in UploadNames, tenths \in MediaLengths, probeOk \in BOOLEAN :
          uploadSeq < MaxUploads /\ Upload(name, "audio/mpeg", tenths, probeOk)
    \/ \E fileId \in ReqFileIds, minutes \in ReqMinutes, format \in ReqFormats :
          StartChunkRejected(fileId, minutes, format)
    \/ \E r \in DOMAIN runs, fileId \in ReqFileIds, minutes \in ReqMinutes,
          format \in ReqFormats : StartChunk(r, fileId, minutes, format)
    \/ \E r \in DOMAIN runs : TaskStart(r)
    \/ \E r \in DOMAIN runs : ProcOpen(r)
    \/ \E r \in DOMAIN runs : ProcFinish(r)
    \/ \E r \in DOMAIN runs : ProcFail(r)
    \/ \E r \in DOMAIN runs : ProbeClose(r)
    \/ \E r \in DOMAIN runs : ProbeTimeout(r)
    \/ \E r \in DOMAIN runs : ExtractClose(r)
    \/ \E fileId \in ReqFileIds : DeleteFileNotFound(fileId)
    \/ \E fileId \in ReqFileIds : DeleteFile(fileId)
    \/ \E chunkId \in 1 .. 2 : DeleteChunkNotFound(chunkId)
    \/ \E chunkId \in Mem_chunkIds(storage) : DeleteChunk(chunkId)
    \/ CleanupRoute

Spec == Init /\ [][Next]_vars

-----------------------------------------------------------------------------
(* SpecRace: the same server with well-formed requests only and no socket,
   two uploads and room for two runs *)

\* the file ids its requests carry
RaceFileIds == 1 .. MaxRaceUploads

InitRace ==
    /\ storage = Mem_new
    /\ runs = [r \in 1 .. MaxRaceRuns |-> FreeRun]
    /\ clients = << >>
    /\ inbox = << >>
    /\ response = NoResponse
    /\ uploadSeq = 0
    /\ boots = 0
    /\ fileIdLog = << >>
    /\ chunkIdLog = << >>
    /\ chunkOrigin = << >>
    /\ DiskEmpty /\ SegIdle /\ DbIdle

NextRace ==
    \/ \E name \in UploadNames :
          uploadSeq < MaxRaceUploads /\ Upload(name, "audio/mpeg", MediaStep, TRUE)
    \/ \E r \in DOMAIN runs, fileId \in RaceFileIds :
          StartChunk(r, fileId, MaxReqMinutes, "sequential")
    \/ \E r \in DOMAIN runs : TaskStart(r)
    \/ \E r \in DOMAIN runs : ProcOpen(r)
    \/ \E r \in DOMAIN runs : ProcFinish(r)
    \/ \E r \in DOMAIN runs : ProcFail(r)
    \/ \E r \in DOMAIN runs : ProbeClose(r)
    \/ \E r \in DOMAIN runs : ProbeTimeout(r)
    \/ \E r \in DOMAIN runs : ExtractClose(r)
    \/ \E fileId \in RaceFileIds : DeleteFile(fileId)
    \/ \E chunkId \in Mem_chunkIds(storage) : DeleteChunk(chunkId)

SpecRace == InitRace /\ [][NextRace]_vars

-----------------------------------------------------------------------------
(* SpecOut: the server of SpecRace with an ffmpeg that may also exit 0 over
   an empty output file *)

NextOut ==
    \/ \E name \in UploadNames :
          uploadSeq < MaxRaceUploads /\ Upload(name, "audio/mpeg", MediaStep, TRUE)
    \/ \E r \in DOMAIN runs, fileId \in RaceFileIds :
          StartChunk(r, fileId, MaxReqMinutes, "sequential")
    \/ \E r \in DOMAIN runs : TaskStart(r)
    \/ \E r \in DOMAIN runs : ProcOpen(r)
    \/ \E r \in DOMAIN runs : ProcFinish(r)
    \/ \E r \in DOMAIN runs : ProcFinishEmpty(r)
    \/ \E r \in DOMAIN runs : ProcFail(r)
    \/ \E r \in DOMAIN runs : ProbeClose(r)
    \/ \E r \in DOMAIN runs : ProbeTimeout(r)
    \/ \E r \in DOMAIN runs : ExtractClose(r)
    \/ \E fileId \in RaceFileIds : DeleteFile(fileId)
    \/ \E chunkId \in Mem_chunkIds(storage) : DeleteChunk(chunkId)

SpecOut == InitRace /\ [][NextOut]_vars

-----------------------------------------------------------------------------
(* FlatFileDatabase: the operations on this.data and on DB_FILE *)

\* Date.prototype.toISOString(), and what JSON.stringify makes of a Date
toISOString(d) == [kind |-> "string", at |-> d.at]

\* JSON.parse(JSON.stringify(records)): the Date field comes back a string
JsonRecords(records, dateField) ==
    [k \in DOMAIN records |->
        [records[k] EXCEPT ![dateField] = toISOString(@)]]

\* JSON.parse(JSON.stringify(this.data, null, 2))
JsonRoundTrip(d) ==
    [ files |-> JsonRecords(d.files, "uploadedAt"),
      chunks |-> JsonRecords(d.chunks, "createdAt"),
      nextFileId |-> d.nextFileId, nextChunkId |-> d.nextChunkId,
      lastUpdated |-> d.lastUpdated ]

\* the empty database loadDatabase() falls back to
Db_new ==
    [ files |-> << >>, chunks |-> << >>, nextFileId |-> 1, nextChunkId |-> 1,
      lastUpdated |-> toISOString(Now) ]

\* x || 1
OrOne(x) == IF x = 0 THEN 1 ELSE x

\* a field the parsed object does not have
JsonUndefined == [kind |-> "undefined", at |-> 0]

\* loadDatabase(): the empty database when DB_FILE is missing, when
\* JSON.parse throws on its text ("garbage") and when the text is `null`
\* (reading data.files throws); otherwise every field of the parsed value
\* that is truthy, and the default for every other one. A parsed number,
\* string, boolean or array ("scalar", "array") has none of the fields; an
\* object's absent (or falsy) `files` and `chunks` are << >> here, its
\* absent counters 0 and its absent `lastUpdated` JsonUndefined.
Db_loadDatabase(file) ==
    IF file.exists /\ file.text = "object"
    THEN [ files |-> file.json.files, chunks |-> file.json.chunks,
           nextFileId |-> OrOne(file.json.nextFileId),
           nextChunkId |-> OrOne(file.json.nextChunkId),
           lastUpdated |-> IF file.json.lastUpdated = JsonUndefined
                           THEN toISOString(Now)
                           ELSE file.json.lastUpdated ]
    ELSE Db_new

\* saveDatabase(), in memory: this.data.lastUpdated = new Date().toISOString()
Db_touch(d) == [d EXCEPT !.lastUpdated = toISOString(Now)]

\* saveDatabase(), on disk: fs.writeFileSync(DB_FILE, jsonData) succeeding;
\* what DB_FILE holds then, as a later JSON.parse gives it
Db_writeFileSync(d) ==
    [exists |-> TRUE, text |-> "object", json |-> JsonRoundTrip(Db_touch(d))]

\* DB_FILE after saveDatabase(): rewritten when writeFileSync succeeded
\* (saved), as it was when writeFileSync threw
Db_saveDatabase(file, d, saved) == IF saved THEN Db_writeFileSync(d) ELSE file

Db_fileIds(d) == { f.id : f \in Range(d.files) }

Db_chunkIds(d) == { c.id : c \in Range(d.chunks) }

\* createUploadedFile(insertFile), before saveDatabase()
Db_createUploadedFile(d, insertFile) ==
    [d EXCEPT !.files = Append(@, [id |-> d.nextFileId, uploadedAt |-> Now]
                                     @@ insertFile),
              !.nextFileId = @ + 1]

\* createChunk(insertChunk), before saveDatabase()
Db_createChunk(d, insertChunk) ==
    [d EXCEPT !.chunks = Append(@, [id |-> d.nextChunkId, createdAt |-> Now]
                                      @@ insertChunk),
              !.nextChunkId = @ + 1]

\* getChunksByFileId(fileId)
Db_getChunksByFileId(d, fileId) ==
    SelectSeq(d.chunks, LAMBDA c : c.fileId = fileId)

\* deleteUploadedFile(id) forgetting the chunks
Db_deleteUploadedFileOnly(d, id) ==
    [d EXCEPT !.files = SelectSeq(@, LAMBDA f : f.id # id)]

\* deleteUploadedFile(id), before saveDatabase()
Db_deleteUploadedFile(d, id) ==
    [d EXCEPT !.files = SelectSeq(@, LAMBDA f : f.id # id),
              !.chunks = SelectSeq(@, LAMBDA c : c.fileId # id)]

\* deleteChunk(id), before saveDatabase()
Db_deleteChunk(d, id) ==
    [d EXCEPT !.chunks = SelectSeq(@, LAMBDA c : c.id # id)]

\* deleteChunksByFileId(fileId), before saveDatabase()
Db_deleteChunksByFileId(d, fileId) ==
    [d EXCEPT !.chunks = SelectSeq(@, LAMBDA c : c.fileId # fileId)]

\* cleanupOrphanedEntries(), before saveDatabase(): the files whose
\* fs.existsSync(file.path) holds, and the chunks of those files whose
\* fs.existsSync(chunk.path) holds
Db_cleanupOrphanedEntries(d, files, dirs) ==
    LET kept == SelectSeq(d.files, LAMBDA f : existsSync(files, dirs, f.path))
        validFileIds == { f.id : f \in Range(kept) }
    IN  [d EXCEPT !.files = kept,
                  !.chunks = SelectSeq(@, LAMBDA c :
                                 /\ c.fileId \in validFileIds
                                 /\ existsSync(files, dirs, c.path))]

-----------------------------------------------------------------------------
(* SpecDb: the two stores, FlatFileDatabase (`database`) and MemStorage
   (`storage`), receiving the same calls, the disk around them changing, and
   the process restarting: the database is constructed anew from DB_FILE and
   `storage` is a new MemStorage. *)

\* what the upload route passes to createUploadedFile for its k-th upload
DbInsertFile(k) ==
    LET filename == "u" \o ToString(k) \o "-episode.mp3"
    IN  [ filename |-> filename, originalName |-> "episode.mp3",
          path |-> UploadPath(filename), size |-> MediaBytes(MediaStep),
          duration |-> RoundTenths(MediaStep), bitrate |-> DefaultBitrate,
          mimeType |-> "audio/mpeg" ]

\* the request that cuts file fileId into chunks of MaxChunkDuration minutes
DbConfig(fileId) ==
    [ fileId |-> fileId, chunkDuration |-> MaxChunkDuration,
      namingFormat |-> "sequential", customPrefix |-> Undefined ]

\* the filename of the one chunk such a run produces
DbChunkFilename(fileId) ==
    SimpleFilename(0, baseFilename("episode.mp3", DbConfig(fileId)),
                   RoundTenths(MediaStep), DbConfig(fileId))

\* what the chunk route passes to createChunk for that chunk
DbInsertChunk(fileId) ==
    InsertChunkOf(fileId,
        ChunkInfo(0, DbChunkFilename(fileId),
                  SegmentBytes(RoundTenths(MediaStep)),
                  RoundTenths(MediaStep), DbConfig(fileId)))

\* where the records' files are on disk: the uploads, and the chunks where
\* ffmpeg wrote them
DbPaths ==
    { DbInsertFile(k).path : k \in 1 .. MaxDbFiles }
      \cup { outputPath(fileId, DbChunkFilename(fileId)) : fileId \in 1 .. MaxDbFiles }

\* the variables SpecDb leaves at rest
dbRest == <<runs, clients, inbox, response, chunkOrigin, seg, fsDirs>>

\* the content of the files on disk
DbContent == [tenths |-> MediaStep, bytes |-> MediaBytes(MediaStep)]

InitDb ==
    /\ storage = Mem_new
    /\ runs = << >> /\ clients = << >> /\ inbox = << >>
    /\ response = NoResponse
    /\ uploadSeq = 0 /\ boots = 0
    /\ fileIdLog = << >> /\ chunkIdLog = << >> /\ chunkOrigin = << >>
    /\ DiskEmpty /\ SegIdle
    /\ dbFile = [exists |-> FALSE]
    /\ data = Db_loadDatabase(dbFile)
    /\ dbResult = [op |-> "none"]
    /\ dbIdLog = [files |-> << >>, chunks |-> << >>]

\* createUploadedFile(insertFile) on both stores, called by the upload route
\* once multer has stored the upload at insertFile.path
createUploadedFile(insertFile, saved) ==
    /\ uploadSeq < MaxDbFiles
    /\ insertFile = DbInsertFile(uploadSeq + 1)
    /\ uploadSeq' = uploadSeq + 1
    /\ fsFiles' = writeFile(fsFiles, insertFile.path, DbContent)
    /\ data' = Db_touch(Db_createUploadedFile(data, insertFile))
    /\ dbFile' = Db_saveDatabase(dbFile, Db_createUploadedFile(data, insertFile), saved)
    /\ dbResult' = [op |-> "createUploadedFile", threw |-> ~saved]
    /\ dbIdLog' = [dbIdLog EXCEPT !.files = Append(@, data.nextFileId)]
    /\ storage' = Mem_createUploadedFile(storage, insertFile)
    /\ fileIdLog' = Append(fileIdLog, Mem_getNextFileId(storage))
    /\ UNCHANGED <<dbRest, boots, chunkIdLog>>

\* createChunk(insertChunk) on both stores, called by the chunking task once
\* ffmpeg has written the chunk under public/
createChunk(insertChunk, saved) ==
    /\ Len(chunkIdLog) < MaxDbChunks
    /\ fsFiles' = writeFile(fsFiles, PublicPath(insertChunk.path), DbContent)
    /\ data' = Db_touch(Db_createChunk(data, insertChunk))
    /\ dbFile' = Db_saveDatabase(dbFile, Db_createChunk(data, insertChunk), saved)
    /\ dbResult' = [op |-> "createChunk", threw |-> ~saved]
    /\ dbIdLog' = [dbIdLog EXCEPT !.chunks = Append(@, data.nextChunkId)]
    /\ storage' = Mem_createChunk(storage, insertChunk)
    /\ chunkIdLog' = Append(chunkIdLog, Mem_getNextChunkId(storage))
    /\ UNCHANGED <<dbRest, uploadSeq, boots, fileIdLog>>

\* deleteUploadedFile(id) on both stores
deleteUploadedFile(id, saved) ==
    /\ data' = Db_touch(Db_deleteUploadedFile(data, id))
    /\ dbFile' = Db_saveDatabase(dbFile, Db_deleteUploadedFile(data, id), saved)
    /\ dbResult' = [op |-> "deleteUploadedFile", id |-> id, threw |-> ~saved]
    /\ storage' = Mem_deleteUploadedFile(storage, id)
    /\ UNCHANGED <<dbRest, uploadSeq, boots, fileIdLog, chunkIdLog, dbIdLog,
                   fsFiles>>

\* deleteChunk(id) on both stores
deleteChunk(id, saved) ==
    /\ data' = Db_touch(Db_deleteChunk(data, id))
    /\ dbFile' = Db_saveDatabase(dbFile, Db_deleteChunk(data, id), saved)
    /\ dbResult' = [op |-> "deleteChunk", threw |-> ~saved]
    /\ storage' = Mem_deleteChunk(storage, id)
    /\ UNCHANGED <<dbRest, uploadSeq, boots, fileIdLog, chunkIdLog, dbIdLog,
                   fsFiles>>

\* deleteChunksByFileId(fileId) on both stores
deleteChunksByFileId(fileId, saved) ==
    /\ data' = Db_touch(Db_deleteChunksByFileId(data, fileId))
    /\ dbFile' = Db_saveDatabase(dbFile, Db_deleteChunksByFileId(data, fileId), saved)
    /\ dbResult' = [op |-> "deleteChunksByFileId", threw |-> ~saved]
    /\ storage' = Mem_deleteChunksByFileId(storage, fileId)
    /\ UNCHANGED <<dbRest, uploadSeq, boots, fileIdLog, chunkIdLog, dbIdLog,
                   fsFiles>>

\* cleanupOrphanedEntries() on the database (MemStorage has none): the
\* snapshot is saved only when something was removed, and the counts returned
cleanupOrphanedEntries(saved) ==
    LET after == Db_cleanupOrphanedEntries(data, fsFiles, fsDirs)
        removedFiles == Len(data.files) - Len(after.files)
        removedChunks == Len(data.chunks) - Len(after.chunks)
    IN  /\ IF removedFiles > 0 \/ removedChunks > 0
           THEN /\ data' = Db_touch(after)
                /\ dbFile' = Db_saveDatabase(dbFile, after, saved)
           ELSE /\ data' = after
                /\ dbFile' = dbFile
        /\ dbResult' = [op |-> "cleanupOrphanedEntries",
                        removedFiles |-> removedFiles,
                        removedChunks |-> removedChunks,
                        threw |-> ~saved /\ (removedFiles > 0 \/ removedChunks > 0)]
        /\ UNCHANGED <<dbRest, storage, uploadSeq, boots, fileIdLog, chunkIdLog,
                       dbIdLog, fsFiles>>

\* the process restarts: `new FlatFileDatabase()` loads DB_FILE and
\* `new MemStorage()` starts empty
Restart ==
    /\ boots < MaxRestarts
    /\ boots' = boots + 1
    /\ data' = Db_loadDatabase(dbFile)
    /\ storage' = Mem_new
    /\ dbResult' = [op |-> "restart"]
    /\ UNCHANGED <<dbRest, uploadSeq, dbFile, fileIdLog, chunkIdLog, dbIdLog,
                   fsFiles>>

\* a file is removed from disk from outside the program
DiskRemove(p) ==
    /\ p \in DOMAIN fsFiles
    /\ fsFiles' = unlinkSync(fsFiles, p)
    /\ UNCHANGED <<dbRest, storage, uploadSeq, boots, fileIdLog, chunkIdLog,
                   dbVars>>

NextDb ==
    \/ \E k \in 1 .. MaxDbFiles : createUploadedFile(DbInsertFile(k), TRUE)
    \/ \E fileId \in 1 .. MaxDbFiles : createChunk(DbInsertChunk(fileId), TRUE)
    \/ \E id \in 1 .. MaxDbFiles : deleteUploadedFile(id, TRUE)
    \/ \E id \in 1 .. MaxDbChunks : deleteChunk(id, TRUE)
    \/ \E fileId \in 1 .. MaxDbFiles : deleteChunksByFileId(fileId, TRUE)
    \/ cleanupOrphanedEntries(TRUE)
    \/ Restart
    \/ \E p \in DbPaths : DiskRemove(p)

SpecDb == InitDb /\ [][NextDb]_vars

-----------------------------------------------------------------------------
(* SpecIo: the same calls on the stores, with fs.writeFileSync(DB_FILE, ...)
   throwing in saveDatabase() at any call (a full or read-only disk). *)

NextIo ==
    \/ \E k \in 1 .. MaxDbFiles, saved \in BOOLEAN :
          createUploadedFile(DbInsertFile(k), saved)
    \/ \E fileId \in 1 .. MaxDbFiles, saved \in BOOLEAN :
          createChunk(DbInsertChunk(fileId), saved)
    \/ \E id \in 1 .. MaxDbFiles, saved \in BOOLEAN : deleteUploadedFile(id, saved)
    \/ \E id \in 1 .. MaxDbChunks, saved \in BOOLEAN : deleteChunk(id, saved)
    \/ \E fileId \in 1 .. MaxDbFiles, saved \in BOOLEAN :
          deleteChunksByFileId(fileId, saved)
    \/ \E saved \in BOOLEAN : cleanupOrphanedEntries(saved)
    \/ Restart

SpecIo == InitDb /\ [][NextIo]_vars

-----------------------------------------------------------------------------
(* SpecLoad: the FlatFileDatabase constructed over whatever DB_FILE holds: the
   file is replaced from outside and the process restarts. *)

\* a file record as an earlier process saved it
LoadRecord ==
    JsonRecords(<<[id |-> 1, uploadedAt |-> [kind |-> "Date", at |-> 0]]
                    @@ DbInsertFile(1)>>, "uploadedAt")[1]

\* the objects DB_FILE may hold: with or without a file record, with or
\* without each counter and lastUpdated
LoadObjects ==
    [ files : {<< >>, <<LoadRecord>>}, chunks : {<< >>},
      nextFileId : {0, 2}, nextChunkId : {0, 1},
      lastUpdated : {JsonUndefined, [kind |-> "string", at |-> 0]} ]

\* what DB_FILE may hold: nothing (missing), text JSON.parse throws on, the
\* text `null`, a number/string/boolean, an array, or an object
LoadFiles ==
    {[exists |-> FALSE]}
      \cup { [exists |-> TRUE, text |-> t] :
                t \in {"garbage", "null", "scalar", "array"} }
      \cup { [exists |-> TRUE, text |-> "object", json |-> j] : j \in LoadObjects }

InitLoad ==
    /\ storage = Mem_new
    /\ runs = << >> /\ clients = << >> /\ inbox = << >>
    /\ response = NoResponse
    /\ uploadSeq = 0 /\ boots = 0
    /\ fileIdLog = << >> /\ chunkIdLog = << >> /\ chunkOrigin = << >>
    /\ DiskEmpty /\ SegIdle
    /\ dbFile \in LoadFiles
    /\ data = Db_loadDatabase(dbFile)
    /\ dbResult = [op |-> "none"]
    /\ dbIdLog = [files |-> << >>, chunks |-> << >>]

\* DB_FILE is replaced (or removed) from outside the program
DbFileReplaced(content) ==
    /\ dbFile # content
    /\ dbFile' = content
    /\ UNCHANGED <<dbRest, storage, uploadSeq, boots, fileIdLog, chunkIdLog,
                   fsFiles, data, dbResult, dbIdLog>>

NextLoad ==
    \/ Restart
    \/ \E content \in LoadFiles : DbFileReplaced(content)

SpecLoad == InitLoad /\ [][NextLoad]_vars

-----------------------------------------------------------------------------
(* Claims about one chunkAudio call (SpecSeg) *)

\* C1: a chunking run whose extractions all succeed returns exactly
\* ceil(D/(60m)) descriptors for the probed duration D and the requested
\* minutes m; descriptor k (1-based) has chunkIndex k, start (k-1)*60m and end
\* min(k*60m, D): the ranges are contiguous, the first starts at 0, the last
\* ends at D, and every segment has duration end - start > 0.
C1_SegmentRanges ==
    seg.pc = "returned" =>
        LET D == seg.duration
            L == 60 * seg.config.chunkDuration
            n == Len(seg.chunks)
            c == seg.chunks
        IN  /\ n * L >= D
            /\ n > 0 => (n - 1) * L < D
            /\ \A k \in 1 .. n :
                  /\ c[k].chunkIndex = k
                  /\ c[k].startTime = (k - 1) * L
                  /\ c[k].endTime = IF k * L < D THEN k * L ELSE D
                  /\ c[k].duration = c[k].endTime - c[k].startTime
                  /\ c[k].duration > 0
            /\ \A k \in 1 .. n - 1 : c[k].endTime = c[k + 1].startTime
            /\ n > 0 => c[1].startTime = 0 /\ c[n].endTime = D

\* C1 witness: the 25-minute file cut in 10-minute chunks has returned its
\* three descriptors [0,600) [600,1200) [1200,1500)
C1_Witness ==
    /\ seg.pc = "returned"
    /\ seg.duration = 1500
    /\ seg.config.chunkDuration = 10
    /\ Len(seg.chunks) = 3
    /\ seg.chunks[3].startTime = 1200
    /\ seg.chunks[3].endTime = 1500
    /\ seg.chunks[3].duration = 300

-----------------------------------------------------------------------------
(* Claims about the server (Spec) *)

Last(q) == q[Len(q)]

\* run r starts an external process in this step
Spawns(r) ==
    /\ runs'[r].proc = "spawned"
    /\ runs[r].proc # "spawned" \/ runs'[r].i # runs[r].i

\* extraction run.i + 1 of run r has exited non-zero and its close handler
\* runs in this step
ExtractionFailure(r) ==
    /\ runs[r].pc = "extracting"
    /\ runs[r].proc = "exited"
    /\ runs[r].code # 0
    /\ runs'[r] # runs[r]

\* the chunk records in the store that run r persisted
ChunksOfRun(r) ==
    { c \in Range(storage.chunks) :
        c.id \in DOMAIN chunkOrigin /\ chunkOrigin[c.id] = r }

C2_Step ==
    \A r \in DOMAIN runs :
        /\ ExtractionFailure(r) =>
              /\ runs'[r].pc = "failed"
              /\ runs'[r].i = runs[r].i
              /\ ~Spawns(r)
              /\ storage' = storage
              /\ \A ws \in Range(clients) :
                    /\ Len(inbox'[ws]) = Len(inbox[ws]) + 1
                    /\ Last(inbox'[ws]).type = "error"
                    /\ Last(inbox'[ws]).fileId = runs[r].fileId
        /\ runs[r].pc = "failed" =>
              /\ runs'[r].pc = "failed"
              /\ ~Spawns(r)

\* C2: when the extraction for index k of a run exits non-zero the run is
\* aborted: its close handler starts no further extraction, persists nothing
\* and sends an error event carrying the file id to every open client; a
\* failed run never starts a process again, and the store never holds a chunk
\* record persisted by a failed run.
C2_FailedRunAborts ==
    /\ [](\A r \in DOMAIN runs : runs[r].pc = "failed" => ChunksOfRun(r) = {})
    /\ [][C2_Step]_vars

\* C2 witness: extraction 2 of 3 has failed, the run is aborted and the open
\* client's last message is the error for the file
C2_Witness ==
    \E r \in DOMAIN runs :
        /\ runs[r].pc = "failed"
        /\ runs[r].kind = "ffmpeg"
        /\ runs[r].i = 1
        /\ totalChunks(runs[r].duration, runs[r].config) = 3
        /\ Len(runs[r].chunks) = 1
        /\ clients = <<1>>
        /\ inbox[1] # << >>
        /\ Last(inbox[1]).type = "error"
        /\ Last(inbox[1]).fileId = runs[r].fileId

\* the records listSegmentsByFile(fileId) returns cover descriptor d
Listed(st, fileId, d) ==
    \E k \in DOMAIN Mem_getChunksByFileId(st, fileId) :
        LET c == Mem_getChunksByFileId(st, fileId)[k]
        IN  /\ c.chunkIndex = d.chunkIndex
            /\ c.filename = d.filename
            /\ c.path = d.path
            /\ c.startTime = d.startTime
            /\ c.endTime = d.endTime
            /\ c.duration = d.duration
            /\ c.size = d.size

C3_Step ==
    \A ws \in DOMAIN inbox :
        (/\ ws \in DOMAIN inbox'
         /\ Len(inbox'[ws]) > Len(inbox[ws])
         /\ Last(inbox'[ws]).type = "complete")
        => LET m == Last(inbox'[ws])
           IN  /\ \A k \in DOMAIN m.chunks : Listed(storage', m.fileId, m.chunks[k])
               /\ \E r \in DOMAIN runs :
                     /\ runs[r].pc \in {"probing", "extracting"}
                     /\ runs'[r].pc = "complete"
                     /\ runs'[r].fileId = m.fileId
                     /\ runs'[r].chunks = m.chunks
                     /\ Cardinality(ChunksOfRun(r)') = Len(m.chunks)

\* C3: in the step that sends a complete event to a client, every segment the
\* event lists is returned by getChunksByFileId(fileId), and the run's
\* createChunk calls have all been made: the store holds one record of the
\* run per listed segment.
C3_CompleteAfterPersist == [][C3_Step]_vars

\* C3 witness: the client has received a complete event listing three
\* segments, all three in the store
C3_Witness ==
    /\ Len(inbox) >= 1
    /\ inbox[1] # << >>
    /\ Last(inbox[1]).type = "complete"
    /\ Len(Last(inbox[1]).chunks) = 3
    /\ Len(Mem_getChunksByFileId(storage, Last(inbox[1]).fileId)) = 3

\* C4: in every reachable state every persisted chunk record's fileId is the
\* id of an uploaded file currently in the store, also when the file is
\* deleted while a run for it is in flight.
C4_SegmentsReferenceLiveFile ==
    \A c \in Range(storage.chunks) : Mem_hasUploadedFile(storage, c.fileId)

\* C6: a delete request for an id that was deleted before (the id was issued
\* and is no longer in the store) completes as a no-op and does not report an
\* error, for DELETE /api/files/:fileId and DELETE /api/chunks/:chunkId.
C6_RepeatedDeleteIsNoError ==
    /\ (/\ response.route = "deleteFile"
        /\ response.id \in Range(fileIdLog)
        /\ ~Mem_hasUploadedFile(storage, response.id))
       => response.status = 200
    /\ (/\ response.route = "deleteChunk"
        /\ response.id \in Range(chunkIdLog)
        /\ ~Mem_hasChunk(storage, response.id))
       => response.status = 200

\* the name the naming scheme gives segment index (1-based) of base, spanning
\* startSec .. endSec
SchemeName(index, base, startSec, endSec, scheme, prefix) ==
    LET NNN == padStart(ToString(index), 3, "0")
        SS == padStart(ToString(startSec \div 60), 2, "0")
        EE == padStart(ToString(endSec \div 60), 2, "0")
    IN  CASE scheme = "sequential" -> NNN \o " - " \o base \o ".mp3"
          [] scheme = "timestamp" ->
                NNN \o " - " \o base \o " (" \o SS \o "-" \o EE \o "min).mp3"
          [] scheme = "custom" -> NNN \o " - " \o base \o " - " \o prefix \o ".mp3"

\* C10: every segment a run started through POST /api/chunk/:fileId produces
\* is named by the scheme its request selected: the filename is the scheme's
\* function of (index, base name, start, end, scheme, prefix).
C10_RunNamedPerRequestScheme ==
    \A r \in DOMAIN runs :
        \A k \in DOMAIN runs[r].chunks :
            LET d == runs[r].chunks[k]
            IN  d.filename =
                  SchemeName(d.chunkIndex, ParseName(runs[r].originalName),
                             d.startTime, d.endTime,
                             runs[r].config.namingFormat,
                             runs[r].config.customPrefix)

-----------------------------------------------------------------------------
(* Claims about the stores (SpecDb) *)

\* what must hold right after deleteUploadedFile(id) has returned
C5_Post(id) ==
    /\ \A c \in Range(data'.chunks) : c.fileId # id
    /\ \A c \in Range(storage'.chunks) : c.fileId # id
    /\ Db_getChunksByFileId(data', id) = << >>
    /\ Mem_getChunksByFileId(storage', id) = << >>
    /\ id \notin Db_fileIds(data')
    /\ ~Mem_hasUploadedFile(storage', id)
    /\ Range(data'.files) = { f \in Range(data.files) : f.id # id }
    /\ Range(storage'.uploadedFiles) = { f \in Range(storage.uploadedFiles) : f.id # id }
    /\ \A other \in (1 .. MaxDbFiles) \ {id} :
          /\ Db_getChunksByFileId(data', other) = Db_getChunksByFileId(data, other)
          /\ Mem_getChunksByFileId(storage', other)
                = Mem_getChunksByFileId(storage, other)

\* C5: right after deleteUploadedFile(id) returns, on either store, no chunk
\* record has fileId = id, getChunksByFileId(id) is empty, the file with that
\* id is absent, and the records of every other file and of every other
\* file's chunks are as they were.
C5_DeleteFileCascades ==
    [][\A id \in 1 .. MaxDbFiles : deleteUploadedFile(id, TRUE) => C5_Post(id)]_vars

\* C5 witness: file 1 and file 2 each got a chunk, then deleteUploadedFile(1)
\* was called: file 2 and its chunk are what both stores hold
C5_Witness ==
    /\ dbResult = [op |-> "deleteUploadedFile", id |-> 1, threw |-> FALSE]
    /\ boots = 0
    /\ dbIdLog = [files |-> <<1, 2>>, chunks |-> <<1, 2>>]
    /\ outputPath(1, DbChunkFilename(1)) \in DOMAIN fsFiles
    /\ Db_fileIds(data) = {2}
    /\ Mem_fileIds(storage) = {2}
    /\ Len(data.chunks) = 1 /\ data.chunks[1].fileId = 2
    /\ Len(storage.chunks) = 1 /\ storage.chunks[1].fileId = 2

\* the upload of a file record is on disk where multer stored it
FileOnDisk(f) == f.path \in DOMAIN fsFiles

\* the chunk of a chunk record is on disk where ffmpeg wrote it
ChunkOnDisk(c) == outputPath(c.fileId, c.filename) \in DOMAIN fsFiles

C7_Step ==
    (/\ cleanupOrphanedEntries(TRUE)
     /\ \A f \in Range(data.files) : FileOnDisk(f)
     /\ \A c \in Range(data.chunks) : c.fileId \in Db_fileIds(data))
    => LET missing == { c \in Range(data.chunks) : ~ChunkOnDisk(c) }
       IN  /\ data'.files = data.files
           /\ Range(data'.chunks) = Range(data.chunks) \ missing
           /\ dbResult'.removedFiles = 0
           /\ dbResult'.removedChunks = Cardinality(missing)

\* C7: on a store in which every file record's upload is on disk and every
\* chunk record belongs to a file in the store, cleanupOrphanedEntries removes
\* exactly the chunk records whose chunk is absent from disk and returns their
\* number: nothing and zero counts when every chunk is on disk, exactly the
\* one record when one chunk was removed from disk.
C7_CleanupRemovesExactlyOrphans == [][C7_Step]_vars

\* the database holds after a restart what it held before, records compared
\* as they are served (JSON), and the same counters
C8_DbRecovered ==
    /\ JsonRoundTrip(data').files = JsonRoundTrip(data).files
    /\ JsonRoundTrip(data').chunks = JsonRoundTrip(data).chunks
    /\ data'.nextFileId = data.nextFileId
    /\ data'.nextChunkId = data.nextChunkId

\* C8: a restart yields the same file records, the same chunk records and the
\* same next-id counters as before it, and the store the routes use lists
\* after the restart every file and chunk it listed before.
C8_RestartRecoversStore ==
    [][Restart =>
          /\ C8_DbRecovered
          /\ Mem_getAllUploadedFiles(storage') = Mem_getAllUploadedFiles(storage)
          /\ Mem_getAllChunks(storage') = Mem_getAllChunks(storage)]_vars

StrictlyIncreasing(q) == \A i, j \in DOMAIN q : i < j => q[i] < q[j]

DistinctIds(records) ==
    \A i, j \in DOMAIN records : i # j => records[i].id # records[j].id

\* C9: the ids createUploadedFile returned, and those createChunk returned,
\* are strictly increasing over the whole history, restarts included, on
\* either store, and no two live records of a kind share an id.
C9_IdsStrictlyIncreasing ==
    /\ StrictlyIncreasing(dbIdLog.files)
    /\ StrictlyIncreasing(dbIdLog.chunks)
    /\ StrictlyIncreasing(fileIdLog)
    /\ StrictlyIncreasing(chunkIdLog)
    /\ DistinctIds(data.files) /\ DistinctIds(data.chunks)
    /\ DistinctIds(storage.uploadedFiles) /\ DistinctIds(storage.chunks)

-----------------------------------------------------------------------------
(* Claims about the chunk route and its background task (Spec) *)

\* the answer of POST /api/chunk/:fileId that accepts the request
Accepted(fileId) == [route |-> "chunk", status |-> 200, id |-> fileId]

\* run r is launched in this step
Launched(r) == runs[r].pc = "free" /\ runs'[r].pc # "free"

\* run r, launched earlier, moves in this step
RunMoves(r) == runs[r].pc # "free" /\ runs'[r] # runs[r]

C11_Step ==
    \A r \in DOMAIN runs :
        /\ Launched(r) =>
              /\ response' = Accepted(runs'[r].fileId)
              /\ runs'[r].pc = "scheduled"
              /\ runs'[r].proc = "none"
              /\ runs'[r].kind = "none"
        /\ Spawns(r) => runs[r].pc # "free"
        /\ RunMoves(r) => response' = response

\* C11: the step that launches a run is the step that answers its request
\* with 200 'Chunking started', and it leaves the run scheduled with no
\* process: the probe and the extractions are only spawned by later steps of a
\* run already answered, and no step of a launched run (success, failure or
\* none at all) touches the response.
C11_AcceptedBeforeRunStarts == [][C11_Step]_vars

\* C11 witness: the request for file 1 has been answered 200 while its run
\* is queued and has started no process
C11_Witness ==
    \E r \in DOMAIN runs :
        /\ runs[r].pc = "scheduled"
        /\ runs[r].proc = "none"
        /\ runs[r].fileId = 1
        /\ response = Accepted(1)

\* what a turned-away chunk request leaves behind: the answer, and nothing else
C12_Post(fileId, minutes) ==
    /\ response'.route = "chunk"
    /\ response'.id = fileId
    /\ response'.status \in {404, 500}
    /\ response'.status = 404 <=>
          (minutes \in 1 .. 60 /\ ~Mem_hasUploadedFile(storage, fileId))
    /\ runs' = runs
    /\ inbox' = inbox
    /\ storage' = storage
    /\ fsFiles' = fsFiles /\ fsDirs' = fsDirs

C12_Step ==
    /\ \A fileId \in ReqFileIds, minutes \in ReqMinutes, format \in ReqFormats :
          StartChunkRejected(fileId, minutes, format) => C12_Post(fileId, minutes)
    /\ \A r \in DOMAIN runs :
          Launched(r) =>
              /\ runs'[r].config.chunkDuration \in 1 .. 60
              /\ Mem_hasUploadedFile(storage, runs'[r].fileId)

\* C12: a chunk request whose fileId is not in the store is answered 404, one
\* whose chunkDuration is outside 1..60 is answered with the schema's error
\* (status 500), in the request's own step; that step launches no run, sends
\* no event and leaves the store, the files and the chunk directories as they
\* were; and every run that is launched has a chunkDuration in 1..60 and a
\* file that was in the store.
C12_InvalidRequestRejected == [][C12_Step]_vars

\* C12 witness: file 1 is in the store and a request for it was turned away
\* by the schema, with no run launched
C12_Witness ==
    /\ response = [route |-> "chunk", status |-> 500, id |-> 1]
    /\ Mem_hasUploadedFile(storage, 1)
    /\ \A r \in DOMAIN runs : runs[r].pc = "free"

\* a failure reaches the task of run r in this step: ffprobe has exited
\* non-zero, the probe's timer fires, ffmpeg has exited non-zero, or the
\* output of an extraction that exited 0 is not there for statSync
RunFailure(r) ==
    \/ /\ runs[r].pc = "probing"
       /\ runs[r].proc = "exited"
       /\ runs[r].code # 0
       /\ runs'[r] # runs[r]
    \/ /\ runs[r].pc = "probing"
       /\ runs[r].proc \in {"spawned", "opened"}
       /\ runs'[r].pc # "probing"
    \/ ExtractionFailure(r)
    \/ /\ runs[r].pc = "extracting"
       /\ runs[r].proc = "exited"
       /\ runs[r].code = 0
       /\ RunOutputPath(runs[r]) \notin DOMAIN fsFiles
       /\ runs'[r] # runs[r]

\* the positions a task can be at; there is none for an error nobody caught
TaskPositions ==
    {"free", "scheduled", "probing", "extracting", "complete", "failed"}

C13_Step ==
    \A r \in DOMAIN runs :
        RunFailure(r) =>
            /\ response' = response
            /\ runs'[r].pc = "failed"
            /\ runs'[r].error # ""
            /\ storage' = storage
            /\ Mem_getChunksByFileId(storage', runs[r].fileId)
                  = Mem_getChunksByFileId(storage, runs[r].fileId)
            /\ \A ws \in DOMAIN inbox :
                  IF ws \in Range(clients)
                  THEN /\ Len(inbox'[ws]) > Len(inbox[ws])
                       /\ Last(inbox'[ws]) = ErrorMsg(runs[r].fileId, runs'[r].error)
                  ELSE inbox'[ws] = inbox[ws]

\* C13: when a failure reaches the task of an accepted run (ffprobe exits
\* non-zero or times out, ffmpeg exits non-zero, the output is not there for
\* statSync), the step leaves the response as it was, ends the task in its
\* catch block (never with an error nobody caught), leaves the store and the
\* records getChunksByFileId returns as they were, and sends every open client
\* an error event with the file id and the error's message.
C13_RunFailureStaysInTask ==
    /\ [](\A r \in DOMAIN runs : runs[r].pc \in TaskPositions)
    /\ [][C13_Step]_vars

\* C13 witness: the request was answered 200, then the probe of its run
\* failed: the answer stands, the task is over and the open client holds the
\* error event
C13_Witness ==
    \E r \in DOMAIN runs :
        /\ runs[r].pc = "failed"
        /\ runs[r].kind = "ffprobe"
        /\ runs[r].error = "ffprobe failed with code 1"
        /\ response = Accepted(runs[r].fileId)
        /\ clients = <<1>>
        /\ inbox[1] = <<ErrorMsg(runs[r].fileId, runs[r].error)>>

\* the task of run r ends in this step
RunEnds(r) ==
    /\ runs[r].pc \in {"scheduled", "probing", "extracting"}
    /\ runs'[r].pc \in {"complete", "failed"}

\* the messages socket ws is sent in this step
NewMsgs(ws) == SubSeq(inbox'[ws], Len(inbox[ws]) + 1, Len(inbox'[ws]))

Terminal(m) == m.type \in {"complete", "error"}

\* the terminal event run r owes its observers once it has ended
TerminalOf(run) ==
    IF run.pc = "complete"
    THEN CompleteMsg(run.fileId, run.chunks)
    ELSE ErrorMsg(run.fileId, run.error)

C14_Step ==
    \A r \in DOMAIN runs :
        /\ (RunEnds(r) /\ Range(clients) # {}) =>
              \E ws \in Range(clients) :
                  /\ NewMsgs(ws) # << >>
                  /\ Last(NewMsgs(ws)) = TerminalOf(runs'[r])
                  /\ Len(SelectSeq(NewMsgs(ws), Terminal)) = 1
        /\ RunEnds(r) => (runs'[r].pc = "complete" <=> ~RunFailure(r))
        /\ (RunEnds(r) /\ runs'[r].pc = "complete") =>
              /\ Len(runs'[r].chunks)
                    = totalChunks(IF runs[r].pc = "probing"
                                  THEN 0 ELSE runs[r].duration, runs[r].config)
              /\ \A k \in DOMAIN runs'[r].chunks :
                    /\ runs'[r].chunks[k].chunkIndex = k
                    /\ Listed(storage', runs'[r].fileId, runs'[r].chunks[k])
        /\ (RunEnds(r) /\ runs'[r].pc = "failed") =>
              \A ws \in DOMAIN inbox :
                  \A k \in DOMAIN NewMsgs(ws) : NewMsgs(ws)[k].type # "complete"
        /\ (runs[r].pc \in {"complete", "failed"} /\ Cardinality(DOMAIN runs) = 1) =>
              \A ws \in DOMAIN inbox : NewMsgs(ws) = << >>

\* C14: the step that ends a run while a socket is open sends exactly one
\* terminal event: the complete event with the run's full ordered chunk list
\* when all its extractions succeeded and their chunks were persisted (and
\* only then), otherwise the error event with the file id; a failing run
\* sends no complete event, and once the run has ended nothing more is sent
\* for it.
C14_ExactlyOneTerminalEvent == [][C14_Step]_vars

\* C14 restricted to the runs whose task picked a socket at its start that is
\* still open when the run ends
C14_StepForPickedSocket ==
    \A r \in DOMAIN runs :
        (RunEnds(r) /\ runs[r].pc # "scheduled" /\ runs[r].ws \in Range(clients)) =>
            /\ NewMsgs(runs[r].ws) # << >>
            /\ Last(NewMsgs(runs[r].ws)) = TerminalOf(runs'[r])
            /\ Len(SelectSeq(NewMsgs(runs[r].ws), Terminal)) = 1

C14_TerminalEventForPickedSocket == [][C14_StepForPickedSocket]_vars

\* the messages a socket holds are those it held, then those of this step
AppendOnly(ws) ==
    /\ ws \in DOMAIN inbox'
    /\ Len(inbox'[ws]) >= Len(inbox[ws])
    /\ SubSeq(inbox'[ws], 1, Len(inbox[ws])) = inbox[ws]

C15_Step ==
    /\ \A ws \in DOMAIN inbox : AppendOnly(ws)
    /\ \A ws1, ws2 \in Range(clients) : NewMsgs(ws1) = NewMsgs(ws2)

\* C15: the events a step emits (progress, complete, error) are sent, in the
\* order of their emission, to every socket that is open in that step: any
\* two open sockets are sent the same messages, whenever they connected, and
\* what a socket was sent before stays in front.
C15_EveryOpenObserverGetsEveryEvent == [][C15_Step]_vars

\* the upload route answers an error and the store is as it was
UploadRefused ==
    /\ response'.route = "upload"
    /\ response'.status >= 400
    /\ storage' = storage

C17_Step ==
    /\ \A name \in UploadNames, mime \in AcceptedMimeTypes,
          tenths \in MediaLengths, probeOk \in BOOLEAN :
          Upload(name, mime, tenths, probeOk) =>
              IF probeOk
              THEN /\ response'.route = "upload" /\ response'.status = 200
                   /\ Len(storage'.uploadedFiles) = Len(storage.uploadedFiles) + 1
                   /\ Last(storage'.uploadedFiles).id = response'.id
              ELSE UploadRefused
    /\ \A mime \in {"audio/mpeg", "text/plain"}, tooLarge \in BOOLEAN :
          UploadRejected(mime, tooLarge) => UploadRefused
    /\ Len(storage'.uploadedFiles) > Len(storage.uploadedFiles) =>
          LET f == Last(storage'.uploadedFiles)
          IN  /\ storage'.uploadedFiles = Append(storage.uploadedFiles, f)
              /\ f.mimeType \in {"audio/mpeg", "audio/mp3"}
              /\ f.size <= 500 * 1024 * 1024
              /\ f.path \in DOMAIN fsFiles'
              /\ response' = [route |-> "upload", status |-> 200, id |-> f.id]
              /\ uploadSeq' = uploadSeq + 1

\* C17: the upload route adds a file record only in a step that answers 200
\* for an upload of an accepted MIME type, of at most 500 MB, stored on disk,
\* whose ffprobe exited 0 in time; an upload turned away by the MIME filter or
\* the size limit, and one whose ffprobe fails or times out, is answered with
\* an error status and leaves the store as it was.
C17_UploadRecordsOnlyProbedAudio == [][C17_Step]_vars

\* C17 witness: the one upload so far was stored on disk, its probe failed,
\* the route answered 500 and the store holds no file
C17_Witness ==
    /\ response = [route |-> "upload", status |-> 500, id |-> 0]
    /\ uploadSeq = 1
    /\ DOMAIN fsFiles = {UploadPath("u1-episode.mp3")}
    /\ storage = Mem_new

-----------------------------------------------------------------------------
(* Claims about the delete route (SpecRace) *)

\* path p belongs to file record f: its upload, or a file of its chunk
\* directory
BelongsTo(f, p) == p = f.path \/ Under(fileChunksDir(f.id), p)

\* what must hold right after DELETE /api/files/:fileId has answered 200
C16_Post(fileId) ==
    LET file == Mem_getUploadedFile(storage, fileId)
    IN  /\ response' = [route |-> "deleteFile", status |-> 200, id |-> fileId]
        /\ ~Mem_hasUploadedFile(storage', fileId)
        /\ Mem_getChunksByFileId(storage', fileId) = << >>
        /\ \A p \in DOMAIN fsFiles' : ~BelongsTo(file, p)
        /\ fileChunksDir(fileId) \notin fsDirs'
        /\ SelectSeq(storage.uploadedFiles, LAMBDA f : f.id # fileId)
              = storage'.uploadedFiles
        /\ SelectSeq(storage.chunks, LAMBDA c : c.fileId # fileId)
              = storage'.chunks
        /\ \A p \in DOMAIN fsFiles :
              ~BelongsTo(file, p) => p \in DOMAIN fsFiles' /\ fsFiles'[p] = fsFiles[p]
        /\ DOMAIN fsFiles' \subseteq DOMAIN fsFiles
        /\ fsDirs' = fsDirs \ {fileChunksDir(fileId)}

\* C16: right after DELETE /api/files/:fileId has answered 200 for a file in
\* the store, the file's record, every chunk record of the file, every file
\* on disk in its chunk directory, the directory and its upload are gone, and
\* the records, chunk records, files on disk and chunk directories of every
\* other uploaded file are as they were.
C16_DeleteFileRemovesAllOfOneFile ==
    [][\A fileId \in RaceFileIds : DeleteFile(fileId) => C16_Post(fileId)]_vars

\* C16 witness: files 1 and 2 were both cut into chunks, then file 1 was
\* deleted: file 2, its chunk record, its upload and its chunk on disk are
\* what is left
C16_Witness ==
    /\ response = [route |-> "deleteFile", status |-> 200, id |-> 1]
    /\ fileIdLog = <<1, 2>>
    /\ Len(chunkIdLog) = 2
    /\ Mem_fileIds(storage) = {2}
    /\ Len(storage.chunks) = 1
    /\ storage.chunks[1].fileId = 2
    /\ fsDirs = {fileChunksDir(2)}
    /\ DOMAIN fsFiles = { Mem_getUploadedFile(storage, 2).path,
                          PublicPath(storage.chunks[1].path) }

-----------------------------------------------------------------------------
(* Claims about the FlatFileDatabase and DB_FILE (SpecLoad, SpecIo) *)

\* DB_FILE holds a snapshot: an object with its lists, both counters (ids
\* start at 1) and lastUpdated
IsSnapshot(file) ==
    /\ file.exists
    /\ file.text = "object"
    /\ file.json.nextFileId >= 1
    /\ file.json.nextChunkId >= 1
    /\ file.json.lastUpdated # JsonUndefined

\* the store holds no file and no chunk and both counters are at 1
StartsEmpty(d) ==
    /\ d.files = << >>
    /\ d.chunks = << >>
    /\ d.nextFileId = 1
    /\ d.nextChunkId = 1

\* C18: a FlatFileDatabase constructed while DB_FILE is missing, does not
\* parse, or parses to a value that is not a snapshot object, starts with no
\* files, no chunks and both counters at 1.
C18_BadSnapshotStartsEmpty ==
    [][(Restart /\ ~IsSnapshot(dbFile)) => StartsEmpty(data')]_vars

\* C18 restricted to a DB_FILE that is missing, does not parse, or parses to
\* a value that is not an object
C18_NonObjectStartsEmpty ==
    [][(Restart /\ (~dbFile.exists \/ dbFile.text # "object"))
          => StartsEmpty(data')]_vars

\* a mutating operation of the database throws in this step: its
\* saveDatabase() failed
OperationThrows ==
    \/ \E k \in 1 .. MaxDbFiles : createUploadedFile(DbInsertFile(k), FALSE)
    \/ \E fileId \in 1 .. MaxDbFiles : createChunk(DbInsertChunk(fileId), FALSE)
    \/ \E id \in 1 .. MaxDbFiles : deleteUploadedFile(id, FALSE)
    \/ \E id \in 1 .. MaxDbChunks : deleteChunk(id, FALSE)
    \/ \E fileId \in 1 .. MaxDbFiles : deleteChunksByFileId(fileId, FALSE)
    \/ cleanupOrphanedEntries(FALSE) /\ dbResult'.threw

\* a mutating operation of the database returns in this step
OperationReturns ==
    \/ \E k \in 1 .. MaxDbFiles : createUploadedFile(DbInsertFile(k), TRUE)
    \/ \E fileId \in 1 .. MaxDbFiles : createChunk(DbInsertChunk(fileId), TRUE)
    \/ \E id \in 1 .. MaxDbFiles : deleteUploadedFile(id, TRUE)
    \/ \E id \in 1 .. MaxDbChunks : deleteChunk(id, TRUE)
    \/ \E fileId \in 1 .. MaxDbFiles : deleteChunksByFileId(fileId, TRUE)
    \/ \E saved \in BOOLEAN : cleanupOrphanedEntries(saved) /\ ~dbResult'.threw

\* what the reads of the database return, and its counters
Observable(d) ==
    [ files |-> d.files, chunks |-> d.chunks,
      nextFileId |-> d.nextFileId, nextChunkId |-> d.nextChunkId ]

\* C19: when saveDatabase() throws in a mutating operation of the database
\* (createUploadedFile, createChunk, deleteUploadedFile, deleteChunk,
\* deleteChunksByFileId, cleanupOrphanedEntries), the records its reads return
\* and both next-id counters are afterwards what they were before the call.
C19_FailedSaveLeavesStoreAsBefore ==
    [][OperationThrows => Observable(data') = Observable(data)]_vars

\* a database constructed from DB_FILE as it is now would hold the records
\* (as they are served, in JSON) and the counters the running database holds
DurableEqualsMemory ==
    Observable(JsonRoundTrip(Db_loadDatabase(dbFile)))
        = Observable(JsonRoundTrip(data))

\* C20: whenever a mutating operation of the database returns, DB_FILE holds
\* the files, chunks, nextFileId and nextChunkId the database holds in
\* memory, so that a database constructed from it right then holds them too.
C20_ReturnedMeansDurable == [][OperationReturns => DurableEqualsMemory']_vars

-----------------------------------------------------------------------------
(* Claims about the probe and the extractions (Spec, SpecRace) *)

\* the close handler of run r's ffprobe runs in this step
ProbeCloses(r) ==
    /\ runs[r].pc = "probing"
    /\ runs[r].proc = "exited"
    /\ runs'[r] # runs[r]

C21_Step ==
    /\ \A r \in DOMAIN runs :
          /\ (ProbeCloses(r) /\ runs[r].code # 0) =>
                /\ runs'[r].pc = "failed"
                /\ runs'[r].error = "ffprobe failed with code 1"
          /\ (ProbeCloses(r) /\ runs[r].code = 0 /\ runs[r].stdout = NoDuration) =>
                /\ runs'[r].pc = "failed"
                /\ runs'[r].error # ""
    /\ Len(storage'.uploadedFiles) > Len(storage.uploadedFiles) =>
          fsFiles'[Last(storage'.uploadedFiles).path].tenths # NoDuration

\* C21: a chunking run whose ffprobe exits non-zero fails with the probe's
\* error, a run whose ffprobe exits 0 without a duration in its output fails
\* too (it does not go on with a substituted duration), and the upload route
\* records no file whose probe output has no duration.
C21_ProbeNeverSubstitutesDuration == [][C21_Step]_vars

\* the probe of run r was given up by its timer
ProbeTimedOut(run) ==
    run.pc = "failed" /\ run.error = "Metadata extraction timeout"

\* the external process run r started last has not exited
ProcessRunning(run) == run.proc \in {"spawned", "opened"}

C22_Step ==
    \A r \in DOMAIN runs :
        /\ (runs[r].pc = "probing" /\ ProcessRunning(runs[r])
               /\ runs'[r].pc # "probing") => ProbeTimedOut(runs'[r])
        /\ (ProbeTimedOut(runs[r]) /\ runs'[r] # runs[r]) =>
              /\ ProbeTimedOut(runs'[r])
              /\ inbox' = inbox
              /\ response' = response
              /\ storage' = storage

\* C22: a probe whose ffprobe has not exited when the 15 s timer fires fails
\* with the timeout error; after that the ffprobe process of that probe is no
\* longer running, and whatever it does later changes neither the reported
\* failure nor the messages, the response or the store.
C22_ProbeTimeoutKillsProcess ==
    /\ [](\A r \in DOMAIN runs : ProbeTimedOut(runs[r]) => ~ProcessRunning(runs[r]))
    /\ [][C22_Step]_vars

\* C22 without the kill: the timeout is reported and a later exit of the
\* abandoned process changes nothing of what was reported
C22_LateExitHasNoEffect == [][C22_Step]_vars

\* what the server itself does for run r: the queued task, the close handlers
\* and the probe timer; the event loop runs each of them once it is due
ServerStep(r) ==
    TaskStart(r) \/ ProbeClose(r) \/ ProbeTimeout(r) \/ ExtractClose(r)

\* SpecLive: the server of Spec with its own steps taken when due; the
\* external processes are not obliged to ever exit
SpecLive == Init /\ [][Next]_vars /\ \A r \in 1 .. MaxRuns : WF_vars(ServerStep(r))

\* C23: every extraction is bounded by a timeout with kill-on-expiry, so a
\* run that has launched an extraction eventually ends, complete or failed,
\* even when the extraction process never exits.
C23_EveryRunTerminates ==
    \A r \in 1 .. MaxRuns :
        (runs[r].pc = "extracting") ~> (runs[r].pc \in {"complete", "failed"})

\* run r starts an ffmpeg extraction in this step
SpawnsExtraction(r) == Spawns(r) /\ runs'[r].kind = "ffmpeg"

\* the extraction of run r that has just exited did so with status 0 and its
\* output file is there for statSync
ExtractionDone(run) ==
    /\ run.pc = "extracting"
    /\ run.kind = "ffmpeg"
    /\ run.proc = "exited"
    /\ run.code = 0
    /\ RunOutputPath(run) \in DOMAIN fsFiles

C24_Step ==
    \A r \in DOMAIN runs :
        /\ Spawns(r) => ~ProcessRunning(runs[r])
        /\ (SpawnsExtraction(r) /\ runs'[r].i = 0) =>
              /\ runs[r].pc = "probing"
              /\ runs[r].proc = "exited"
              /\ runs[r].code = 0
        /\ (SpawnsExtraction(r) /\ runs'[r].i > 0) =>
              /\ ExtractionDone(runs[r])
              /\ runs'[r].i = runs[r].i + 1
              /\ Len(runs'[r].chunks) = runs'[r].i
              /\ Last(runs'[r].chunks).size = fsFiles[RunOutputPath(runs[r])].bytes
        /\ (runs[r].pc = "extracting" /\ runs[r].proc = "exited"
               /\ ~ExtractionDone(runs[r]) /\ runs'[r] # runs[r]) =>
              /\ runs'[r].pc = "failed"
              /\ runs'[r].proc = "exited"
        /\ runs[r].pc \in {"failed", "complete"} => ~Spawns(r)

\* C24: a run has at most one extraction process at a time: a process is
\* started only when the run's previous one is no longer running; the
\* extraction for index i+1 is started only in the close handler of the
\* extraction for index i, after that one exited with status 0 and its output
\* file was stat'ed into the list; and after a failed extraction, or once
\* the run has ended, the run starts no process any more.
C24_ExtractionsAreSerial == [][C24_Step]_vars

\* the second extraction of a run has been started after the first one's
\* output was stat'ed
C24_Witness ==
    \E r \in DOMAIN runs :
        /\ runs[r].pc = "extracting"
        /\ runs[r].i = 1
        /\ runs[r].proc = "spawned"
        /\ Len(runs[r].chunks) = 1

\* the progress events socket ws has received, in order of arrival
ProgressEvents(ws) == SelectSeq(inbox[ws], LAMBDA m : m.type = "progress")

\* p is 100 * k / n rounded to the nearest integer
NearestPercent(p, k, n) ==
    /\ 2 * (100 * k - n * p) <= n
    /\ 2 * (n * p - 100 * k) <= n

\* the socket run r picked when its task started is still open
ObserverAttached(run) == run.ws \in Range(clients)

C25_Inv ==
    \A r \in DOMAIN runs :
        (runs[r].pc \in {"extracting", "complete"} /\ ObserverAttached(runs[r])) =>
            LET run == runs[r]
                N == totalChunks(run.duration, run.config)
                P == ProgressEvents(run.ws)
            IN  /\ \A k \in DOMAIN P :
                      /\ P[k].fileId = run.fileId
                      /\ P[k].currentChunk = k
                      /\ P[k].totalChunks = N
                      /\ NearestPercent(P[k].progress, k, N)
                      /\ k > 1 => P[k - 1].progress <= P[k].progress
                /\ run.pc = "extracting" =>
                      /\ Len(P) = run.i
                      /\ inbox[run.ws] = P
                /\ run.pc = "complete" =>
                      /\ Len(P) = N
                      /\ N > 0 => Last(P).progress = 100
                      /\ inbox[run.ws] = Append(P, CompleteMsg(run.fileId, run.chunks))

\* C25: for a run of N extractions whose socket stays open, the socket
\* receives one progress event per extraction whose close handler has run, in
\* index order: the k-th has currentChunk k, totalChunks N and progress
\* 100*k/N rounded to the nearest integer, so progress never decreases; the
\* N-th carries 100 and the complete event comes after it.
C25_ProgressInIndexOrder == C25_Inv

\* a run of two extractions has completed in front of its socket
C25_Witness ==
    \E r \in DOMAIN runs :
        /\ runs[r].pc = "complete"
        /\ ObserverAttached(runs[r])
        /\ Len(runs[r].chunks) = 2
        /\ Len(inbox[runs[r].ws]) = 3
        /\ inbox[runs[r].ws][1].progress = 50

\* the chunk records the store gains in this step
CreatedChunks == { c \in Range(storage'.chunks) : ~Mem_hasChunk(storage, c.id) }

\* the file on disk behind a chunk record
BackingFile(c) == outputPath(c.fileId, c.filename)

C26_Step ==
    \A c \in CreatedChunks :
        /\ BackingFile(c) \in DOMAIN fsFiles'
        /\ fsFiles'[BackingFile(c)].bytes > 0
        /\ c.size = fsFiles'[BackingFile(c)].bytes

\* C26: whenever a chunk record is written, its output file is on disk at
\* that moment with the size the record carries, and that size is not zero:
\* an extraction that exits 0 without an output file, or over an empty one,
\* yields no chunk record.
C26_RecordOnlyForNonEmptyOutput == [][C26_Step]_vars

\* C26 for a missing output only: a run one of whose extractions exited 0
\* with no output file on disk at its close handler creates no record
C26_NoRecordWithoutOutput ==
    [][\A r \in DOMAIN runs :
          (runs[r].pc = "extracting" /\ runs[r].proc = "exited" /\ runs[r].code = 0
             /\ RunOutputPath(runs[r]) \notin DOMAIN fsFiles /\ runs'[r] # runs[r])
          => (runs'[r].pc = "failed" /\ storage' = storage)]_vars

-----------------------------------------------------------------------------
(* Claims about the chunk records of a file (SpecRace) *)

\* the chunk records S tile [0, duration): each range is non-empty, one starts
\* at 0, each ends at the duration or where another starts, no two overlap,
\* and chunkIndex counts the records in ascending start order
Tiles(S, duration) ==
    /\ \A c \in S : c.startTime < c.endTime
    /\ \E c \in S : c.startTime = 0
    /\ \A c \in S :
          c.endTime = duration \/ \E d \in S : d.startTime = c.endTime
    /\ \A c, d \in S :
          c.id # d.id => (c.endTime <= d.startTime \/ d.endTime <= c.startTime)
    /\ \A c \in S :
          c.chunkIndex = 1 + Cardinality({d \in S : d.startTime < c.startTime})

\* C27: in every reachable state, the chunk records of an uploaded file that
\* has any are contiguous, do not overlap and cover [0, duration) exactly,
\* with chunkIndex in ascending start order; also after a second run for the
\* same file and after single chunks were deleted.
C27_SegmentsTileTheFile ==
    \A f \in Range(storage.uploadedFiles) :
        LET S == Range(Mem_getChunksByFileId(storage, f.id))
        IN  S # {} => Tiles(S, f.duration)

\* C27 at the moment a run completes for a file that had no records: the
\* records it persists tile the file
C27_FirstRunTilesTheFile ==
    [][\A r \in DOMAIN runs :
          (/\ runs[r].pc = "extracting"
           /\ runs'[r].pc = "complete"
           /\ Mem_hasUploadedFile(storage, runs[r].fileId)
           /\ Mem_getChunksByFileId(storage, runs[r].fileId) = << >>)
          => Tiles(Range(Mem_getChunksByFileId(storage', runs[r].fileId)),
                   Mem_getUploadedFile(storage, runs[r].fileId).duration)]_vars

\* the list L is in ascending chunkIndex order
AscendingIndex(L) ==
    \A j, k \in DOMAIN L : j < k => L[j].chunkIndex <= L[k].chunkIndex

\* C28: getChunksByFileId(id) returns the file's chunk records in ascending
\* chunkIndex order in every reachable state, whatever the order in which the
\* records were created (by one run or by two runs of the same file) or
\* deleted.
C28_ListingInIndexOrder ==
    \A fileId \in RaceFileIds : AscendingIndex(Mem_getChunksByFileId(storage, fileId))

\* C28 while every record of the file comes from one run: the listing is in
\* ascending chunkIndex order, also after deletes
C28_OneRunListingInIndexOrder ==
    \A fileId \in RaceFileIds :
        LET L == Mem_getChunksByFileId(storage, fileId)
        IN  (\A c, d \in Range(L) : chunkOrigin[c.id] = chunkOrigin[d.id])
                => AscendingIndex(L)

\* the chunk records whose output file is on disk
Backed(st, files) == { c \in Range(st.chunks) : BackingFile(c) \in DOMAIN files }

C29_Step ==
    \A id \in Mem_chunkIds(storage) :
        (~Mem_hasChunk(storage', id) /\ Len(storage'.chunks) = Len(storage.chunks) - 1)
            => Backed(storage', fsFiles) \subseteq Backed(storage', fsFiles')

\* C29: no two chunk records in the store carry the same path, and a step
\* that deletes one chunk record (and unlinks its file) leaves the file of
\* every other record in the store on disk; in every reachable state, also
\* after two runs for the same file, one after the other or interleaved.
C29_NoSharedBackingFile ==
    /\ [](\A c, d \in Range(storage.chunks) : c.id # d.id => c.path # d.path)
    /\ [][C29_Step]_vars

\* C29 across files: chunk records of different files never carry the same
\* path
C29_NoSharedPathAcrossFiles ==
    \A c, d \in Range(storage.chunks) : c.fileId # d.fileId => c.path # d.path

-----------------------------------------------------------------------------
(* Claims about runs for different files (SpecRace) *)

\* the files on disk under directory dir
FilesUnder(files, dir) ==
    [p \in {q \in DOMAIN files : Under(dir, q)} |-> files[p]]

\* what a run of `run`'s request produces on its own for an upload of
\* MediaStep tenths: the chunk records, without id and createdAt
ExpectedChunks(run) ==
    LET D == RoundTenths(MediaStep)
        base == baseFilename(run.originalName, run.config)
    IN  [k \in 1 .. totalChunks(D, run.config) |->
            InsertChunkOf(run.fileId,
                ChunkInfo(k - 1, SimpleFilename(k - 1, base, D, run.config),
                          SegmentBytes(actualDuration(k - 1, D, run.config)),
                          D, run.config))]

\* run r moves in this step: its task, its external process or a handler
RunStep(r) == runs[r].pc # "free" /\ runs'[r] # runs[r]

\* no other run is or was for the file of run a
OnlyRunOfItsFile(a) ==
    \A q \in DOMAIN runs \ {a} : runs[q].fileId # runs[a].fileId

C30_Step ==
    /\ \A b \in DOMAIN runs : RunStep(b) =>
          /\ \A q \in DOMAIN runs \ {b} : runs'[q] = runs[q]
          /\ \A A \in RaceFileIds \ {runs[b].fileId} :
                /\ Mem_getChunksByFileId(storage', A) = Mem_getChunksByFileId(storage, A)
                /\ FilesUnder(fsFiles', fileChunksDir(A)) = FilesUnder(fsFiles, fileChunksDir(A))
                /\ fileChunksDir(A) \in fsDirs' <=> fileChunksDir(A) \in fsDirs
    /\ \A a \in DOMAIN runs :
          (runs[a].pc = "extracting" /\ runs'[a].pc = "complete" /\ OnlyRunOfItsFile(a)) =>
              LET exp == ExpectedChunks(runs[a])
                  new == NewChunks(storage, storage')
              IN  /\ [k \in DOMAIN new |-> InsertChunkOf(new[k].fileId, new[k])] = exp
                  /\ \A k \in DOMAIN exp :
                        /\ outputPath(runs[a].fileId, exp[k].filename) \in DOMAIN fsFiles'
                        /\ fsFiles'[outputPath(runs[a].fileId, exp[k].filename)].bytes
                              = exp[k].size
    /\ \A c \in CreatedChunks : c.fileId = runs[chunkOrigin'[c.id]].fileId

\* C30: runs for different files do not touch each other: a step of one run
\* (a failure included) leaves every other run, the chunk records of every
\* other file and the files and directory under every other file's chunk
\* directory as they were; a run that is the only one for its file and
\* completes persists exactly the records it produces on its own (ids
\* aside) with their files on disk, however the other run interleaves; and
\* every record carries the fileId of the run that created it.
C30_RunsOfDifferentFilesAreIsolated == [][C30_Step]_vars

\* the run for one file has completed with both its chunks although the run
\* for the other file failed after its first extraction
C30_Witness ==
    \E a, b \in DOMAIN runs :
        /\ runs[a].pc = "complete"
        /\ runs[b].pc = "failed"
        /\ runs[b].fileId \notin {0, runs[a].fileId}
        /\ Len(runs[b].chunks) = 1
        /\ Len(Mem_getChunksByFileId(storage, runs[a].fileId)) = 2
        /\ Mem_getChunksByFileId(storage, runs[b].fileId) = << >>

=============================================================================
